---- MODULE Spec2Model ----
(***************************************************************************)
(* The trainer behind the WebSocket bridge (trainer/server.py, with the    *)
(* PPO agent of trainer/ppo.py).  One action per message handler of        *)
(* handle(); the Trainer's methods are operators on a record of the        *)
(* Trainer's fields, composed in the order the handler calls them.         *)
(*                                                                         *)
(* Numbers.  Observation features are in tenths (5 is 0.5).  Rewards and   *)
(* value estimates are integers; gamma and lam are in halves (2 is 1.0);   *)
(* advantages are in units of 1/Scale so that the recursion is exact.      *)
(* The network is abstract: its parameters are a pair of version numbers   *)
(* (pi, vf) and its outputs are fixed functions of parameters and input.   *)
(***************************************************************************)
EXTENDS Integers, Sequences, FiniteSets, TLC

VARIABLES
    pc,                  \* "boot" before Trainer.__init__ ran; "run" when handle()
                         \* waits for a message; else the line a handler stands at
    torch,               \* did the import of torch and ppo succeed
    lock,                \* Trainer.lock: "free" or "held"
    frame,               \* the locals of a handler that stands inside a step
    batch_target,        \* Trainer.batch_target
    gamma,               \* Trainer.gamma, in halves
    lam,                 \* Trainer.lam, in halves
    max_checkpoints,     \* Trainer.max_checkpoints
    cfg,                 \* Trainer.cfg (NoCfg is None)
    policies,            \* Trainer.policies: role -> PPOAgent
    buffers,             \* Trainer.buffers: role -> the seven columns
    act_cache,           \* Trainer.act_cache: key -> [logp, value, role]
    updates_done,        \* Trainer.updates_done: role -> count
    global_updates,      \* Trainer.global_updates
    episodes_logged,     \* Trainer.episodes_logged
    current_ep_rewards,  \* Trainer.current_ep_rewards: role -> list
    current_ep_steps,    \* Trainer.current_ep_steps: role -> count
    current_ep_duration, \* Trainer.current_ep_duration
    current_ep_winner,   \* Trainer.current_ep_winner ("" when none)
    current_ep_terminal_reason, \* Trainer.current_ep_terminal_reason
    current_ep_episode_id,      \* Trainer.current_ep_episode_id (NoId is None)
    metrics_csv,         \* the file metrics.csv of the run directory
    metrics_legacy,      \* the file metrics.csv.legacy beside it
    checkpoint_dir,      \* the files of the run's checkpoints directory
    legacy_policy,       \* the file policy.pt beside the trainer's code
    fs_clock,            \* the file system's modification clock
    h_msg,               \* history: the message the last step handled
    h_infer,             \* history: the inference of the last step
    h_upd,               \* history: role -> the update attempt of the last step
    h_ep,                \* history: the transitions of the client's current episode
    h_rows0,             \* history: rows in metrics.csv when that episode began
    h_fresh,             \* history: were the episode statistics fresh when it began
    h_saves,             \* history: role -> checkpoint files written so far
    h_info,              \* history: the info of every transition ingested
                         \* since the episode statistics were last reset
    probe                \* inputs and result of the pure-function specifications

vars == <<pc, torch, lock, frame, batch_target, gamma, lam, max_checkpoints, cfg, policies, buffers,
          act_cache, updates_done, global_updates, episodes_logged,
          current_ep_rewards, current_ep_steps, current_ep_duration,
          current_ep_winner, current_ep_terminal_reason, current_ep_episode_id,
          metrics_csv, metrics_legacy,
          checkpoint_dir, legacy_policy, fs_clock, h_msg, h_infer, h_upd, h_ep, h_rows0,
          h_fresh, h_saves, h_info, probe>>

(***************************************************************************)
(* Bounds of the model.                                                    *)
(***************************************************************************)
\* The longest batch any specification lets a buffer hold.
MaxBuf == 3

(***************************************************************************)
(* Program constants.                                                      *)
(***************************************************************************)
FlagIndex == 8
FlagThreshold == 5
ActDim == 3

RoleSeq == <<"seeker", "hider">>
RoleSet == {"seeker", "hider"}
SingleKey == "__single__"
NoObs == <<-1>>

\* gamma*lam and gamma are halves; Scale makes MaxBuf + 1 nested products exact.
Scale == 2 * (4 ^ (MaxBuf + 1))

(***************************************************************************)
(* Helpers: dictionaries with a growing key set, sums, maxima.             *)
(***************************************************************************)
EmptyMap == [k \in {} |-> 0]

\* The same forgetting every other key: a mutant of Put.
Put_Only(f, k, v) == [x \in {k} |-> v]

Put(f, k, v) == [x \in (DOMAIN f) \cup {k} |-> IF x = k THEN v ELSE f[x]]

Drop(f, k) == [x \in (DOMAIN f) \ {k} |-> f[x]]

Last(s) == s[Len(s)]

RECURSIVE SumSeq(_)
SumSeq(s) == IF s = <<>> THEN 0 ELSE s[1] + SumSeq(Tail(s))

Max2(a, b) == IF a >= b THEN a ELSE b

(***************************************************************************)
(* Observations and the role router.                                       *)
(***************************************************************************)
\* An observation of n features: the flag feature (when there is one) is flag,
\* every other feature is x.
MkObs(n, flag, x) == [i \in 1..n |-> IF i = FlagIndex + 1 THEN flag ELSE x]

\* The same taking every value for a list: a mutant of IsList.
IsList_Any(v) == TRUE

IsList(v) == v # NoObs

\* The same with a strict comparison: a mutant of _role_from_obs.
_role_from_obs_Strict(obs) ==
    IF Len(obs) > FlagIndex /\ obs[FlagIndex + 1] > FlagThreshold
    THEN "seeker"
    ELSE "hider"

_role_from_obs(obs) ==
    IF Len(obs) > FlagIndex /\ obs[FlagIndex + 1] >= FlagThreshold
    THEN "seeker"
    ELSE "hider"

(***************************************************************************)
(* PPOAgent: parameters and the abstract network.                          *)
(***************************************************************************)
NoCfg == [obs_dim |-> 0, act_dim |-> 0]

PPOConfig(obs_dim, act_dim) == [obs_dim |-> obs_dim, act_dim |-> act_dim]

PPOAgent(c) == [dim |-> c.obs_dim, pi |-> 0, vf |-> 0]

\* A saved state dict: the width it was saved for and both parameter sets.
NoPolicyFile == [exists |-> FALSE, dim |-> 0, pi |-> 0, vf |-> 0]

PolicyFile(pol) == [exists |-> TRUE, dim |-> pol.dim, pi |-> pol.pi, vf |-> pol.vf]

\* Policy parameters whose first layer is as built and whose other layers
\* come from a file saved for another width.
Mixed(pi) == 100 + pi

\* PPOAgent.load_policy under ensure_policy's try: loading pi from a file of
\* another width copies the layers whose shapes agree and then raises, so vf
\* is not loaded.
load_policy(pol, file) ==
    IF file.dim = pol.dim
    THEN [pol EXCEPT !.pi = file.pi, !.vf = file.vf]
    ELSE [pol EXCEPT !.pi = Mixed(file.pi)]

\* The value head: some fixed function of the value parameters and the input.
ValueOf(pol, obs) == 1 + ((pol.vf + obs[1] + Len(obs)) % 3)

\* The log-probability of an action under the policy head.
LogpOf(pol, obs, a) == 0 - ((pol.pi + obs[1] + a[1] + 2) % 2)

\* A forward pass raises when the input's width is not the network's.
ShapeOk(pol, obs) == Len(obs) = pol.dim

\* evaluate_actions broadcasts a one-column action against the three means
\* and raises for any other width.
ActShapeOk(a) == Len(a) = ActDim \/ Len(a) = 1

\* The parameters after the gradient steps of one PPOAgent.update call.
GradientSteps(pol) == [pol EXCEPT !.pi = @ + 1, !.vf = @ + 1]

\* What PPOAgent.update does on a batch: outcome "raise" is an exception out
\* of the loop, the others are the metrics it returns.
PPOAgent_update(pol, outcome) ==
    [raised |-> outcome = "raise",
     pol |-> GradientSteps(pol),
     metrics |-> [policy_loss |-> IF outcome = "nonfinite" THEN "nan" ELSE "finite",
                  value_loss |-> IF outcome = "nonfinite" THEN "inf" ELSE "finite",
                  kl_over_5x |-> outcome = "highkl"]]

(***************************************************************************)
(* The Trainer's state as one record, and its installation.                *)
(***************************************************************************)
_make_buffer ==
    [obs |-> <<>>, act |-> <<>>, rew |-> <<>>, done |-> <<>>,
     logp |-> <<>>, val |-> <<>>, next_val |-> <<>>]

NoInfer == [kind |-> "none"]
NoUpd == [kind |-> "none"]
NoMsg == [type |-> "none"]
NoFrame == [at |-> "none"]

State ==
    [cfg |-> cfg, policies |-> policies, buffers |-> buffers,
     act_cache |-> act_cache, updates_done |-> updates_done,
     global_updates |-> global_updates, episodes_logged |-> episodes_logged,
     current_ep_rewards |-> current_ep_rewards,
     current_ep_steps |-> current_ep_steps,
     current_ep_duration |-> current_ep_duration,
     current_ep_winner |-> current_ep_winner,
     current_ep_terminal_reason |-> current_ep_terminal_reason,
     current_ep_episode_id |-> current_ep_episode_id,
     metrics_csv |-> metrics_csv,
     checkpoint_dir |-> checkpoint_dir, legacy_policy |-> legacy_policy,
     fs_clock |-> fs_clock, torch |-> torch,
     h_infer |-> NoInfer, h_upd |-> [r \in RoleSet |-> NoUpd],
     h_ep |-> h_ep, h_rows0 |-> h_rows0, h_fresh |-> h_fresh,
     h_saves |-> h_saves, h_info |-> h_info]

Install(t) ==
    /\ cfg' = t.cfg
    /\ policies' = t.policies
    /\ buffers' = t.buffers
    /\ act_cache' = t.act_cache
    /\ updates_done' = t.updates_done
    /\ global_updates' = t.global_updates
    /\ episodes_logged' = t.episodes_logged
    /\ current_ep_rewards' = t.current_ep_rewards
    /\ current_ep_steps' = t.current_ep_steps
    /\ current_ep_duration' = t.current_ep_duration
    /\ current_ep_winner' = t.current_ep_winner
    /\ current_ep_terminal_reason' = t.current_ep_terminal_reason
    /\ current_ep_episode_id' = t.current_ep_episode_id
    /\ metrics_csv' = t.metrics_csv
    /\ checkpoint_dir' = t.checkpoint_dir
    /\ legacy_policy' = t.legacy_policy
    /\ fs_clock' = t.fs_clock
    /\ h_infer' = t.h_infer
    /\ h_upd' = t.h_upd
    /\ h_ep' = t.h_ep
    /\ h_rows0' = t.h_rows0
    /\ h_fresh' = t.h_fresh
    /\ h_saves' = t.h_saves
    /\ h_info' = t.h_info

\* current_ep_episode_id when it is None, else a one-element list of the id.
NoId == <<>>

_reset_episode_stats(t) ==
    [t EXCEPT !.current_ep_rewards = [r \in RoleSet |-> <<>>],
              !.current_ep_steps = [r \in RoleSet |-> 0],
              !.current_ep_duration = 0,
              !.current_ep_winner = "",
              !.current_ep_terminal_reason = "",
              !.current_ep_episode_id = NoId,
              !.h_info = <<>>]

StatsFresh(t) ==
    /\ \A r \in RoleSet : t.current_ep_rewards[r] = <<>> /\ t.current_ep_steps[r] = 0
    /\ t.current_ep_duration = 0
    /\ t.current_ep_winner = ""
    /\ t.current_ep_terminal_reason = ""
    /\ t.current_ep_episode_id = NoId

(***************************************************************************)
(* Action Service.                                                         *)
(***************************************************************************)
\* The same without the reset on a changed width: a mutant of ensure_policy.
ensure_policy_KeepOnChange(t, obs_dim, act_dim) ==
    [t EXCEPT !.cfg = PPOConfig(obs_dim, act_dim),
              !.policies = [r \in RoleSet |->
                              IF r \in DOMAIN t.policies /\ t.cfg.obs_dim = obs_dim
                              THEN t.policies[r]
                              ELSE PPOAgent(PPOConfig(obs_dim, act_dim))]]

\* The same building the policies on every call: a mutant of ensure_policy.
ensure_policy_Rebuild(t, obs_dim, act_dim) ==
    IF ~t.torch
    THEN t
    ELSE [t EXCEPT !.cfg = PPOConfig(obs_dim, act_dim),
                   !.policies = [r \in RoleSet |->
                                    PPOAgent(PPOConfig(obs_dim, act_dim))]]

ensure_policy(t, obs_dim, act_dim) ==
    LET changed == /\ t.cfg # NoCfg
                   /\ (t.cfg.obs_dim # obs_dim \/ t.cfg.act_dim # act_dim)
        t1 == IF changed
              THEN [t EXCEPT !.cfg = NoCfg,
                             !.policies = EmptyMap,
                             !.buffers = [r \in RoleSet |-> _make_buffer],
                             !.act_cache = EmptyMap,
                             !.updates_done = [r \in RoleSet |-> 0]]
              ELSE t
        built == [r \in RoleSet |-> PPOAgent(PPOConfig(obs_dim, act_dim))]
    IN  IF ~t.torch
        THEN t
        ELSE IF t1.cfg # NoCfg /\ DOMAIN t1.policies # {}
        THEN t1
        ELSE [t1 EXCEPT !.cfg = PPOConfig(obs_dim, act_dim),
                        !.policies =
                            [r \in RoleSet |->
                                IF r = "seeker" /\ t.legacy_policy.exists
                                THEN load_policy(built[r], t.legacy_policy)
                                ELSE built[r]]]

\* The same always falling back, on three random components: a mutant of
\* act_with_cache.
act_with_cache_ThreeRandom(t, agent_name, obs, smp) ==
    [t |-> [ensure_policy(t, Len(obs), ActDim) EXCEPT !.h_infer =
               [kind |-> "fallback", role |-> _role_from_obs(obs),
                action |-> smp, logp |-> 0, value |-> 0,
                pre_cache |-> t.act_cache]],
     action |-> smp,
     raised |-> FALSE]

\* smp is the action the policy samples, or the three numbers the random
\* source draws.  The result carries the trainer state, the returned action,
\* and raised when the forward pass raised.
act_with_cache(t, agent_name, obs, smp) ==
    LET t1 == ensure_policy(t, Len(obs), ActDim)
        role == _role_from_obs(obs)
        cache_key == IF agent_name # "" THEN agent_name ELSE SingleKey
    IN  IF role \notin DOMAIN t1.policies
        THEN [t |-> [t1 EXCEPT !.h_infer =
                        [kind |-> "fallback", role |-> role,
                         action |-> <<smp[1], smp[2], 0>>,
                         logp |-> 0, value |-> 0,
                         pre_cache |-> t.act_cache]],
              action |-> <<smp[1], smp[2], 0>>,
              raised |-> FALSE]
        ELSE LET pol == t1.policies[role]
             IN  IF ~ShapeOk(pol, obs)
                 THEN [t |-> [t1 EXCEPT !.h_infer =
                                 [kind |-> "raised", role |-> role]],
                       action |-> <<>>,
                       raised |-> TRUE]
                 ELSE [t |-> [t1 EXCEPT
                                !.act_cache = Put(@, cache_key,
                                    [logp |-> LogpOf(pol, obs, smp),
                                     value |-> ValueOf(pol, obs),
                                     role |-> role]),
                                !.h_infer = [kind |-> "action", role |-> role,
                                             key |-> cache_key,
                                             obs_len |-> Len(obs),
                                             policy_dim |-> pol.dim,
                                             read |-> [pi |-> pol.pi,
                                                       vf |-> pol.vf],
                                             pre_cfg |-> t.cfg,
                                             pre_buffered |->
                                                 Len(t.buffers["seeker"].obs)
                                                 + Len(t.buffers["hider"].obs),
                                             pre_updates |->
                                                 t.updates_done["seeker"]
                                                 + t.updates_done["hider"]]],
                       action |-> smp,
                       raised |-> FALSE]

(***************************************************************************)
(* Experience Buffer: ingestion of one transition.                         *)
(***************************************************************************)
\* The same finding no entry and leaving the cache as it is: a mutant of
\* _pull_cached_act.
_pull_cached_act_Miss(t, agent_name) ==
    [t |-> t, hit |-> FALSE, logp |-> 0, value |-> 0]

_pull_cached_act(t, agent_name) ==
    LET key == IF agent_name # "" THEN agent_name ELSE SingleKey
    IN  IF key \in DOMAIN t.act_cache
        THEN [t |-> [t EXCEPT !.act_cache = Drop(@, key)],
              hit |-> TRUE, logp |-> t.act_cache[key].logp,
              value |-> t.act_cache[key].value]
        ELSE [t |-> t, hit |-> FALSE, logp |-> 0, value |-> 0]

_evaluate_offline(t, role, obs, act) ==
    IF role \notin DOMAIN t.policies
    THEN [raised |-> FALSE, logp |-> 0, value |-> 0]
    ELSE IF ~ShapeOk(t.policies[role], obs) \/ ~ActShapeOk(act)
    THEN [raised |-> TRUE, logp |-> 0, value |-> 0]
    ELSE [raised |-> FALSE,
          logp |-> LogpOf(t.policies[role], obs, act),
          value |-> ValueOf(t.policies[role], obs)]

\* The three floats stored for an action list of at least two elements.
StoredAct(act) == <<act[1], act[2], IF Len(act) > 2 THEN act[3] ELSE 0>>

\* A JSON value of an info field: absent or null, a number, or a string (no
\* string here reads as a number).
JNull == [ty |-> "null", n |-> 0, s |-> ""]

JNum(n) == [ty |-> "num", n |-> n, s |-> ""]

JStr(str) == [ty |-> "str", n |-> 0, s |-> str]

\* The info of a transition as lines 431-455 read it.
InfoDict(time_elapsed, winner, terminal_reason, episode) ==
    [time_elapsed |-> time_elapsed, winner |-> winner,
     terminal_reason |-> terminal_reason, episode |-> episode]

\* An info that is no dict, an empty one, or one with none of these keys.
NoInfo == InfoDict(JNull, JNull, JNull, JNull)

\* Lines 437-442: float(time_elapsed) of a string raises ValueError, which
\* is passed over.
NoteDuration(cur, time_elapsed) ==
    IF time_elapsed.ty = "num" THEN Max2(cur, time_elapsed.n) ELSE cur

\* The same taking every later string: a mutant of NoteFirstStr.
NoteFirstStr_Last(cur, v) == IF v.ty = "str" THEN v.s ELSE cur

\* Lines 443-450: `if not self.current_ep_winner` and isinstance(.., str),
\* and the same for the terminal reason.
NoteFirstStr(cur, v) == IF cur = "" /\ v.ty = "str" THEN v.s ELSE cur

\* Lines 451-454: `is None` and isinstance(.., (int, float)); ids are whole.
NoteFirstId(cur, v) == IF cur = NoId /\ v.ty = "num" THEN <<v.n>> ELSE cur

\* Lines 430-454, and the history of the infos ingested.
NoteInfo(t, info) ==
    [t EXCEPT !.current_ep_duration = NoteDuration(@, info.time_elapsed),
              !.current_ep_winner = NoteFirstStr(@, info.winner),
              !.current_ep_terminal_reason = NoteFirstStr(@, info.terminal_reason),
              !.current_ep_episode_id = NoteFirstId(@, info.episode),
              !.h_info = Append(@, info)]

\* History of the client's episode: a transition after a done one begins the
\* next episode.
NoteIngested(t, role, rew, done) ==
    LET begins == t.h_ep = <<>> \/ Last(t.h_ep).done
        x == [role |-> role, rew |-> rew, done |-> done]
    IN  [t EXCEPT !.h_ep = IF begins THEN <<x>> ELSE Append(@, x),
                  !.h_rows0 = IF begins THEN Len(t.metrics_csv.rows) ELSE @,
                  !.h_fresh = IF begins THEN StatsFresh(t) ELSE @]

\* The same never bootstrapping: a mutant of NextValue.
NextValue_Never(t, role, done, next_obs) == 0

\* Lines 415-417: next_value is 0.0 unless the transition is not done,
\* next_obs is a list and the role has a policy; then it is the value head's
\* estimate on next_obs.
NextValue(t, role, done, next_obs) ==
    IF ~done /\ IsList(next_obs) /\ role \in DOMAIN t.policies
    THEN ValueOf(t.policies[role], next_obs)
    ELSE 0

\* The result carries the trainer state, ret (the returned done flag) and
\* raised (an exception left the method; ret is then meaningless).
_store_transition(t, role, obs, act, rew, done, next_obs, agent_name, info) ==
    LET pulled == _pull_cached_act(t, agent_name)
        t1 == pulled.t
        off == _evaluate_offline(t1, role, obs, act)
        wantNext == ~done /\ IsList(next_obs) /\ role \in DOMAIN t1.policies
    IN  IF ~pulled.hit /\ off.raised
        THEN [t |-> t1, ret |-> FALSE, raised |-> TRUE]
        ELSE IF wantNext /\ ~ShapeOk(t1.policies[role], next_obs)
        THEN [t |-> t1, ret |-> FALSE, raised |-> TRUE]
        ELSE IF Len(act) < 2
        THEN \* act[1] (or act[0]) raises after the observation was appended
             [t |-> [t1 EXCEPT !.buffers[role].obs = Append(@, obs)],
              ret |-> FALSE, raised |-> TRUE]
        ELSE
        LET logp == IF pulled.hit THEN pulled.logp ELSE off.logp
            value == IF pulled.hit THEN pulled.value ELSE off.value
            next_value == NextValue(t1, role, done, next_obs)
            buf == t1.buffers[role]
            buf2 == [obs |-> Append(buf.obs, obs),
                     act |-> Append(buf.act, StoredAct(act)),
                     rew |-> Append(buf.rew, rew),
                     done |-> Append(buf.done, done),
                     logp |-> Append(buf.logp, logp),
                     val |-> Append(buf.val, value),
                     next_val |-> Append(buf.next_val,
                                         IF done THEN 0 ELSE next_value)]
            t2 == [NoteInfo(NoteIngested(t1, role, rew, done), info) EXCEPT
                     !.buffers[role] = buf2,
                     !.current_ep_rewards[role] = Append(@, rew),
                     !.current_ep_steps[role] = @ + 1]
            t3 == IF done /\ agent_name # ""
                  THEN [t2 EXCEPT !.act_cache = Drop(@, agent_name)]
                  ELSE t2
        IN  [t |-> t3, ret |-> done, raised |-> FALSE]

(***************************************************************************)
(* Episode Aggregator.                                                     *)
(***************************************************************************)
\* The same with the smaller of the two step counts: a mutant of MetricsRow.
MetricsRow_MinSteps(t) ==
    [episode |-> t.episodes_logged + 1,
     episode_id |-> IF t.current_ep_episode_id # NoId
                    THEN t.current_ep_episode_id[1]
                    ELSE t.episodes_logged + 1,
     reward_sum |-> SumSeq(t.current_ep_rewards["seeker"])
                    + SumSeq(t.current_ep_rewards["hider"]),
     steps |-> IF t.current_ep_steps["seeker"] <= t.current_ep_steps["hider"]
               THEN t.current_ep_steps["seeker"]
               ELSE t.current_ep_steps["hider"],
     updates |-> t.updates_done["seeker"] + t.updates_done["hider"],
     seeker_reward_sum |-> SumSeq(t.current_ep_rewards["seeker"]),
     seeker_steps |-> t.current_ep_steps["seeker"],
     hider_reward_sum |-> SumSeq(t.current_ep_rewards["hider"]),
     hider_steps |-> t.current_ep_steps["hider"],
     winner |-> t.current_ep_winner,
     terminal_reason |-> t.current_ep_terminal_reason,
     duration_sec |-> t.current_ep_duration]

MetricsRow(t) ==
    [episode |-> t.episodes_logged + 1,
     episode_id |-> IF t.current_ep_episode_id # NoId
                    THEN t.current_ep_episode_id[1]
                    ELSE t.episodes_logged + 1,
     reward_sum |-> SumSeq(t.current_ep_rewards["seeker"])
                    + SumSeq(t.current_ep_rewards["hider"]),
     steps |-> Max2(t.current_ep_steps["seeker"], t.current_ep_steps["hider"]),
     updates |-> t.updates_done["seeker"] + t.updates_done["hider"],
     seeker_reward_sum |-> SumSeq(t.current_ep_rewards["seeker"]),
     seeker_steps |-> t.current_ep_steps["seeker"],
     hider_reward_sum |-> SumSeq(t.current_ep_rewards["hider"]),
     hider_steps |-> t.current_ep_steps["hider"],
     winner |-> t.current_ep_winner,
     terminal_reason |-> t.current_ep_terminal_reason,
     duration_sec |-> t.current_ep_duration]

\* appendOk = FALSE: opening metrics.csv for append raised.  The result
\* carries the trainer state and raised (the exception left the method).
log_episode(t, appendOk) ==
    LET total_samples == Len(t.current_ep_rewards["seeker"])
                         + Len(t.current_ep_rewards["hider"])
    IN  IF total_samples = 0
        THEN [t |-> t, raised |-> FALSE]
        ELSE IF ~appendOk
        THEN [t |-> [t EXCEPT !.episodes_logged = @ + 1], raised |-> TRUE]
        ELSE LET t1 == [t EXCEPT !.episodes_logged = @ + 1,
                                 !.metrics_csv.rows = Append(@, MetricsRow(t))]
             IN  [t |-> [_reset_episode_stats(t1) EXCEPT !.act_cache = EmptyMap],
                  raised |-> FALSE]

(***************************************************************************)
(* Advantage Estimator: the backward loop of _update_role, in 1/Scale.     *)
(***************************************************************************)
\* The same without the done mask: a mutant of GaeAt.
RECURSIVE GaeAt_NoMask(_, _)
GaeAt_NoMask(data, i) ==
    IF i > Len(data.rew)
    THEN 0
    ELSE LET delta == Scale * data.rew[i]
                      + (gamma * Scale * data.next_val[i]) \div 2
                      - Scale * data.val[i]
         IN  delta + (gamma * lam * GaeAt_NoMask(data, i + 1)) \div 4

\* The same without the accumulation of later deltas: a mutant of GaeAt.
RECURSIVE GaeAt_DeltaOnly(_, _)
GaeAt_DeltaOnly(data, i) ==
    IF i > Len(data.rew)
    THEN 0
    ELSE LET mask == IF data.done[i] THEN 0 ELSE 1
         IN  Scale * data.rew[i]
             + (gamma * Scale * data.next_val[i] * mask) \div 2
             - Scale * data.val[i]

\* The same with the accumulated term masked by the done flag of the later
\* transition: a mutant of GaeAt.
RECURSIVE GaeAt_MaskOfNext(_, _)
GaeAt_MaskOfNext(data, i) ==
    IF i > Len(data.rew)
    THEN 0
    ELSE LET mask == IF data.done[i] THEN 0 ELSE 1
             later == IF i < Len(data.rew) /\ data.done[i + 1] THEN 0 ELSE 1
             delta == Scale * data.rew[i]
                      + (gamma * Scale * data.next_val[i] * mask) \div 2
                      - Scale * data.val[i]
         IN  delta + (gamma * lam * later * GaeAt_MaskOfNext(data, i + 1)) \div 4

RECURSIVE GaeAt(_, _)
GaeAt(data, i) ==
    IF i > Len(data.rew)
    THEN 0
    ELSE LET mask == IF data.done[i] THEN 0 ELSE 1
             delta == Scale * data.rew[i]
                      + (gamma * Scale * data.next_val[i] * mask) \div 2
                      - Scale * data.val[i]
         IN  delta + (gamma * lam * mask * GaeAt(data, i + 1)) \div 4

Advantages(data) == [i \in 1..Len(data.rew) |-> GaeAt(data, i)]

\* `returns = adv + values`, on the advantages before their normalisation.
Returns(data) ==
    [i \in 1..Len(data.rew) |-> Advantages(data)[i] + Scale * data.val[i]]

(***************************************************************************)
(* Checkpoint Manager.                                                     *)
(***************************************************************************)
RoleFiles(dir, role) == {f \in dir : f.role = role}

Oldest(files) == CHOOSE f \in files : \A g \in files : f.mtime <= g.mtime

RECURSIVE TrimLoop(_, _, _)
TrimLoop(dir, role, keep) ==
    IF Cardinality(RoleFiles(dir, role)) > keep
    THEN TrimLoop(dir \ {Oldest(RoleFiles(dir, role))}, role, keep)
    ELSE dir

_trim_checkpoints(t, role) ==
    IF max_checkpoints <= 0
    THEN t
    ELSE [t EXCEPT !.checkpoint_dir = TrimLoop(@, role, max_checkpoints)]

\* save_policy creates or overwrites the file named by role and step.
save_policy(t, role, step) ==
    [t EXCEPT !.checkpoint_dir =
                  {f \in @ : ~(f.role = role /\ f.step = step)}
                  \cup {[role |-> role, step |-> step,
                         mtime |-> t.fs_clock + 1,
                         content |-> t.policies[role]]},
              !.fs_clock = @ + 1,
              !.h_saves[role] = @ + 1]

\* saveOk = FALSE: the write of policy.pt raised and the exception is printed.
_save_legacy_policy(t, saveOk) ==
    IF saveOk
    THEN [t EXCEPT !.legacy_policy = PolicyFile(t.policies["seeker"])]
    ELSE t

\* saveOk = FALSE: save_policy raised and the exception is printed.
_save_checkpoint(t, role, saveOk) ==
    IF saveOk
    THEN _trim_checkpoints(save_policy(t, role, t.updates_done[role]), role)
    ELSE t

(***************************************************************************)
(* Update Engine.                                                          *)
(***************************************************************************)
_snapshot_policy(t, role) == [pi |-> t.policies[role].pi, vf |-> t.policies[role].vf]

\* The same restoring the policy head only: a mutant of _restore_policy.
_restore_policy_PiOnly(t, role, snapshot) ==
    [t EXCEPT !.policies[role].pi = snapshot.pi]

_restore_policy(t, role, snapshot) ==
    [t EXCEPT !.policies[role].pi = snapshot.pi,
              !.policies[role].vf = snapshot.vf]

\* np.array of observation lists of unequal lengths raises.
Ragged(obsList) == \E i, j \in 1..Len(obsList) : Len(obsList[i]) # Len(obsList[j])

\* A batch with more observations than actions (an ingestion raised between
\* the two appends) passes evaluate_actions only when its one action row
\* broadcasts against the observations.
Broadcasts(data) == Len(data.obs) = Len(data.act) \/ Len(data.act) = 1

\* The result carries the trainer state, the returned info, and crashed when
\* an exception left the method.  outcome is what PPOAgent.update does on a
\* batch of the network's shape; on any other batch its forward pass raises.
_update_role(t, role, data, outcome) ==
    IF Ragged(data.obs)
    THEN [t |-> t, info |-> [rolled_back |-> FALSE, batch_size |-> 0],
          crashed |-> TRUE]
    ELSE
    LET adv == Advantages(data)
        snapshot == _snapshot_policy(t, role)
        shaped == /\ \A i \in 1..Len(data.obs) : ShapeOk(t.policies[role], data.obs[i])
                  /\ Broadcasts(data)
        upd == PPOAgent_update(t.policies[role],
                               IF shaped THEN outcome ELSE "raise")
        t1 == [t EXCEPT !.policies[role] = upd.pol]
        bad == \/ upd.metrics.policy_loss # "finite"
               \/ upd.metrics.value_loss # "finite"
               \/ upd.metrics.kl_over_5x
        rolled == upd.raised \/ bad
        t2 == IF rolled THEN _restore_policy(t1, role, snapshot) ELSE t1
        info == [rolled_back |-> rolled,
                 batch_size |-> IF rolled THEN 0 ELSE Len(data.rew)]
    IN  [t |-> [t2 EXCEPT !.h_upd[role] =
                    [kind |-> "attempt",
                     cause |-> IF shaped THEN outcome ELSE "raise",
                     data |-> data, adv |-> adv,
                     snapshot |-> snapshot,
                     after |-> _snapshot_policy(t2, role),
                     info |-> info]],
          info |-> info, crashed |-> FALSE]

\* The same dropping the batch: a mutant of ExtendBuffer.
ExtendBuffer_Drop(buf, data) == buf

ExtendBuffer(buf, data) ==
    [obs |-> buf.obs \o data.obs, act |-> buf.act \o data.act,
     rew |-> buf.rew \o data.rew, done |-> buf.done \o data.done,
     logp |-> buf.logp \o data.logp, val |-> buf.val \o data.val,
     next_val |-> buf.next_val \o data.next_val]

\* The same never finding a batch due: a mutant of UpdateLoopStep.
UpdateLoopStep_NeverDue(ls, snapshot, role, outcome) ==
    IF ls.crashed
    THEN ls
    ELSE [ls EXCEPT !.t.buffers[role] = ExtendBuffer(@, snapshot[role])]

\* One iteration of maybe_update's loop over the swapped-out snapshot.
\* ls is [t, updates, crashed]; after a crash the rest of the loop is skipped.
UpdateLoopStep(ls, snapshot, role, outcome) ==
    IF ls.crashed
    THEN ls
    ELSE IF Len(snapshot[role].obs) < batch_target
    THEN [ls EXCEPT !.t.buffers[role] = ExtendBuffer(@, snapshot[role])]
    ELSE LET r == _update_role(ls.t, role, snapshot[role], outcome)
         IN  IF r.crashed
             THEN [t |-> r.t, updates |-> ls.updates, crashed |-> TRUE]
             ELSE IF r.info.rolled_back
             THEN [t |-> [r.t EXCEPT !.buffers[role] =
                                        ExtendBuffer(@, snapshot[role])],
                   updates |-> ls.updates, crashed |-> FALSE]
             ELSE [t |-> r.t, updates |-> Append(ls.updates, role),
                   crashed |-> FALSE]

RECURSIVE UpdateLoop(_, _, _, _)
UpdateLoop(ls, snapshot, i, out) ==
    IF i > Len(RoleSeq)
    THEN ls
    ELSE UpdateLoop(UpdateLoopStep(ls, snapshot, RoleSeq[i], out[RoleSeq[i]]),
                    snapshot, i + 1, out)

\* The bookkeeping after the loop, for the i-th successful update.
RECURSIVE AfterUpdates(_, _, _, _)
AfterUpdates(t, updates, i, saveOk) ==
    IF i > Len(updates)
    THEN t
    ELSE LET role == updates[i]
             t1 == [t EXCEPT !.updates_done[role] = @ + 1]
             t2 == _save_checkpoint(t1, role, saveOk)
             t3 == IF role = "seeker" THEN _save_legacy_policy(t2, saveOk) ELSE t2
         IN  AfterUpdates(t3, updates, i + 1, saveOk)

\* out: role -> outcome of that role's PPOAgent.update, should it run.
\* The result carries the trainer state and crashed.
maybe_update(t, out, saveOk) ==
    IF DOMAIN t.policies = {}
    THEN [t |-> t, crashed |-> FALSE]
    ELSE LET snapshot == t.buffers
             cleared == [t EXCEPT !.buffers = [r \in RoleSet |-> _make_buffer]]
             ls == UpdateLoop([t |-> cleared, updates |-> <<>>, crashed |-> FALSE],
                              snapshot, 1, out)
         IN  IF ls.crashed
             THEN [t |-> ls.t, crashed |-> TRUE]
             ELSE IF ls.updates = <<>>
             THEN [t |-> ls.t, crashed |-> FALSE]
             ELSE [t |-> AfterUpdates([ls.t EXCEPT !.global_updates = @ + 1],
                                      ls.updates, 1, saveOk),
                   crashed |-> FALSE]

(***************************************************************************)
(* Run / Metrics Sink: the metrics log at trainer start.                   *)
(* A file is [exists, header, rows]; a line is a sequence of tokens, the   *)
(* token " " being white space; an empty file has the empty first line.    *)
(***************************************************************************)
Header == <<"episode,episode_id,...,duration_sec">>
OldHeader == <<"episode,reward_mean,reward_sum,steps">>
NoFile == [exists |-> FALSE, header |-> <<>>, rows |-> <<>>]
HeaderOnly == [exists |-> TRUE, header |-> Header, rows |-> <<>>]

RECURSIVE LStrip(_)
LStrip(line) ==
    IF line # <<>> /\ line[1] = " " THEN LStrip(Tail(line)) ELSE line

RECURSIVE RStrip(_)
RStrip(line) ==
    IF line # <<>> /\ Last(line) = " "
    THEN RStrip(SubSeq(line, 1, Len(line) - 1))
    ELSE line

\* str.strip() of the line readline() returned.
Strip(line) == RStrip(LStrip(line))

\* fs is [csv, legacy].  readOk = FALSE: reading the first line raised;
\* replaceOk = FALSE: os.replace raised.  Both exceptions are swallowed.
_prepare_metrics_csv(fs, readOk, replaceOk) ==
    IF ~fs.csv.exists
    THEN [fs EXCEPT !.csv = HeaderOnly]
    ELSE LET existing == IF readOk THEN Strip(fs.csv.header) ELSE <<>>
         IN  IF existing # Header
             THEN [csv |-> HeaderOnly,
                   legacy |-> IF replaceOk THEN fs.csv ELSE fs.legacy]
             ELSE fs

(***************************************************************************)
(* Initial states: before Trainer.__init__, with the configuration and the *)
(* files the run starts from.                                              *)
(***************************************************************************)
InitAll(Targets, Gammas, Lams, Keeps, Logs, Legacies, Probes, Torches) ==
    /\ pc = "boot"
    /\ torch \in Torches
    /\ lock = "free"
    /\ frame = NoFrame
    /\ batch_target \in Targets
    /\ gamma \in Gammas
    /\ lam \in Lams
    /\ max_checkpoints \in Keeps
    /\ cfg = NoCfg
    /\ policies = EmptyMap
    /\ buffers = [r \in RoleSet |-> _make_buffer]
    /\ act_cache = EmptyMap
    /\ updates_done = [r \in RoleSet |-> 0]
    /\ global_updates = 0
    /\ episodes_logged = 0
    /\ current_ep_rewards = [r \in RoleSet |-> <<>>]
    /\ current_ep_steps = [r \in RoleSet |-> 0]
    /\ current_ep_duration = 0
    /\ current_ep_winner = ""
    /\ current_ep_terminal_reason = ""
    /\ current_ep_episode_id = NoId
    /\ metrics_csv \in Logs
    /\ metrics_legacy \in Legacies
    /\ checkpoint_dir = {}
    /\ legacy_policy = NoPolicyFile
    /\ fs_clock = 0
    /\ h_msg = NoMsg
    /\ h_infer = NoInfer
    /\ h_upd = [r \in RoleSet |-> NoUpd]
    /\ h_ep = <<>>
    /\ h_rows0 = 0
    /\ h_fresh = TRUE
    /\ h_saves = [r \in RoleSet |-> 0]
    /\ h_info = <<>>
    /\ probe \in Probes

\* The start of a run whose imports succeeded.
InitWith(Targets, Gammas, Lams, Keeps, Logs, Legacies, Probes) ==
    InitAll(Targets, Gammas, Lams, Keeps, Logs, Legacies, Probes, {TRUE})

NoProbe == [kind |-> "none"]

ConfigVars == <<batch_target, gamma, lam, max_checkpoints, torch>>

\* What a handler taken in one step leaves as it found it.
StepVars == <<lock, frame>>

TrainerVars ==
    <<cfg, policies, buffers, act_cache, updates_done, global_updates,
      episodes_logged, current_ep_rewards, current_ep_steps,
      current_ep_duration, current_ep_winner, current_ep_terminal_reason,
      current_ep_episode_id, checkpoint_dir,
      legacy_policy, fs_clock, h_infer, h_upd, h_ep, h_rows0, h_fresh, h_saves,
      h_info>>

(***************************************************************************)
(* Steps: the constructor, and one per message type of handle().           *)
(***************************************************************************)
\* Trainer.__init__: the part that prepares the metrics log.
Boot(readOk, replaceOk) ==
    /\ pc = "boot"
    /\ LET fs == _prepare_metrics_csv([csv |-> metrics_csv, legacy |-> metrics_legacy],
                                      readOk, replaceOk)
       IN  /\ metrics_csv' = fs.csv
           /\ metrics_legacy' = fs.legacy
    /\ pc' = "run"
    /\ h_msg' = [type |-> "boot", before |-> metrics_csv,
                 legacy_before |-> metrics_legacy,
                 readOk |-> readOk, replaceOk |-> replaceOk]
    /\ UNCHANGED <<ConfigVars, StepVars, TrainerVars, probe>>

\* The same for a server whose inference ran beside the handler that is
\* inside a step (another thread): a mutant of AtLoopHead.
AtLoopHead_Beside == pc # "boot"

\* handle() stands at its `async for`: no handler is inside a step.  The
\* trainer's methods are plain calls without an await, and the server starts
\* no thread, so the event loop hands the next frame to a handler only here.
AtLoopHead == pc = "run"

\* The frame handle() sends for an "act" message; error is "" for an empty
\* info.
ActionMsg(action, error) == [type |-> "action", action |-> action, error |-> error]

\* An "act" message; obs is NoObs when the field is no list.  ended: an
\* exception left handle(), which ends the loop of this connection.
HandleAct(obs, smp) ==
    /\ AtLoopHead
    /\ IF ~IsList(obs)
       THEN /\ Install(State)
            /\ h_msg' = [type |-> "act", obs_len |-> 0, pre_cfg |-> cfg,
                         in_flight |-> frame # NoFrame, obs_is_list |-> FALSE,
                         sent |-> <<ActionMsg(<<0, 0, 0>>, "invalid_obs")>>,
                         ended |-> FALSE]
       ELSE LET r == act_with_cache(State, SingleKey, obs, smp)
            IN  /\ Install(r.t)
                /\ h_msg' = [type |-> "act", obs_len |-> Len(obs), pre_cfg |-> cfg,
                             in_flight |-> frame # NoFrame,
                             obs_is_list |-> obs # NoObs,
                             sent |-> IF r.raised THEN <<>>
                                      ELSE <<ActionMsg(r.action, "")>>,
                             ended |-> r.raised]
    /\ UNCHANGED <<pc, ConfigVars, StepVars, metrics_legacy, probe>>

\* The loop of the "act_batch" branch over obs_dict.items(): entries is a
\* sequence of [name, arr], smp the action sampled for every agent.
RECURSIVE ActAll(_, _, _, _, _, _)
ActAll(t, entries, i, smp, actions, raised) ==
    IF i > Len(entries) \/ raised
    THEN [t |-> t, actions |-> actions, raised |-> raised]
    ELSE LET skip == ~IsList(entries[i].arr)
             r == act_with_cache(t, entries[i].name, entries[i].arr, smp)
         IN  ActAll(IF skip THEN t ELSE r.t, entries, i + 1, smp,
                    IF skip \/ r.raised THEN actions
                    ELSE Put(actions, entries[i].name, r.action),
                    ~skip /\ r.raised)

\* An "act_batch" message; obs_dict is [is_dict, entries], is_dict FALSE for
\* an obs field that is no JSON object (its .items() raises).
HandleActBatch(obs_dict, smp) ==
    /\ AtLoopHead
    /\ IF ~obs_dict.is_dict
       THEN /\ Install(State)
            /\ h_msg' = [type |-> "act_batch", obs_dict |-> obs_dict,
                         pre_cache |-> act_cache, sent |-> <<>>, ended |-> TRUE]
       ELSE LET r == ActAll(State, obs_dict.entries, 1, smp, EmptyMap, FALSE)
            IN  /\ Install(r.t)
                /\ h_msg' = [type |-> "act_batch", obs_dict |-> obs_dict,
                             pre_cache |-> act_cache, pre_cfg |-> cfg,
                             sent |-> IF r.raised THEN <<>>
                                      ELSE <<[type |-> "action_batch",
                                              actions |-> r.actions]>>,
                             ended |-> r.raised]
    /\ UNCHANGED <<pc, ConfigVars, StepVars, metrics_legacy, probe>>

\* The growth a specification allows a step: lim is [buf, eplen, updates,
\* episodes], the longest buffer and episode and the most updates and
\* episodes of a run.
Limits(buf, eplen, updates, episodes) ==
    [buf |-> buf, eplen |-> eplen, updates |-> updates, episodes |-> episodes]

\* t is the state after ingestion; finished: an episode flush follows.
WithinBounds(t, finished, lim) ==
    /\ global_updates < lim.updates
    /\ episodes_logged + (IF finished THEN 1 ELSE 0) <= lim.episodes
    /\ \A r \in RoleSet : /\ Len(t.buffers[r].obs) <= lim.buf
                          /\ Len(t.buffers[r].obs) <= MaxBuf
                          /\ Len(t.current_ep_rewards[r]) <= lim.eplen

\* A JSON value float() raises on.
NotANumber == -999

\* The end of the "transition" branch: st is what _store_transition did, le
\* what log_episode did, mu what maybe_update did.
AfterUpdate(st, mu) ==
    [t |-> mu.t, stored |-> st.t, finished |-> st.ret, raised |-> mu.crashed]

AfterFlush(st, le, out, saveOk) ==
    IF le.raised
    THEN [t |-> le.t, stored |-> st.t, finished |-> TRUE, raised |-> TRUE]
    ELSE AfterUpdate(st, maybe_update(le.t, out, saveOk))

AfterStore(st, out, saveOk, appendOk) ==
    IF st.raised
    THEN [t |-> st.t, stored |-> st.t, finished |-> FALSE, raised |-> TRUE]
    ELSE AfterFlush(st,
                    IF st.ret THEN log_episode(st.t, appendOk)
                    ELSE [t |-> st.t, raised |-> FALSE],
                    out, saveOk)

\* The "transition" branch of handle().  tr is [obs, action, reward, done,
\* next_obs, agent]; obs and action are NoObs when they are no lists.  The
\* result carries the trainer state, stored (the state after ingestion),
\* finished (an episode flush followed) and raised.
TransitionBranch(t, tr, out, saveOk, appendOk) ==
    IF tr.reward = NotANumber
    THEN [t |-> t, stored |-> t, finished |-> FALSE, raised |-> TRUE]
    ELSE IF ~(IsList(tr.obs) /\ IsList(tr.action))
    THEN [t |-> t, stored |-> t, finished |-> FALSE, raised |-> FALSE]
    ELSE AfterStore(_store_transition(t, _role_from_obs(tr.obs), tr.obs,
                                      tr.action, tr.reward, tr.done,
                                      tr.next_obs, tr.agent, tr.info),
                    out, saveOk, appendOk)

\* What is ill-typed in a transition, "" when nothing is.
Fault(tr) ==
    IF tr.reward = NotANumber THEN "reward"
    ELSE IF ~IsList(tr.obs) THEN "obs"
    ELSE IF ~IsList(tr.action) THEN "action"
    ELSE IF Len(tr.action) < 2 THEN "short_action"
    ELSE ""

\* r is what the branch did.
InstallBranch(r, lim) ==
    /\ WithinBounds(r.stored, r.finished, lim)
    /\ Install(r.t)

\* What the handling of one "transition" frame leaves behind, computed from
\* the trainer t as it stood when the frame arrived.
TransitionMsg(t, tr, out, saveOk, appendOk) ==
    [type |-> "transition",
     obs_len |-> IF IsList(tr.obs) THEN Len(tr.obs) ELSE 0,
     pre_cfg |-> t.cfg, fault |-> Fault(tr),
     saveOk |-> saveOk, appendOk |-> appendOk,
     key |-> IF tr.agent # "" THEN tr.agent ELSE SingleKey,
     hit |-> Fault(tr) \in {"", "short_action"}
             /\ _pull_cached_act(t, tr.agent).hit,
     finished |-> TransitionBranch(t, tr, out, saveOk, appendOk).finished,
     sent |-> <<>>,
     ended |-> TransitionBranch(t, tr, out, saveOk, appendOk).raised]

HandleTransition(tr, out, saveOk, appendOk, lim) ==
    /\ AtLoopHead
    /\ InstallBranch(TransitionBranch(State, tr, out, saveOk, appendOk), lim)
    /\ h_msg' = TransitionMsg(State, tr, out, saveOk, appendOk)
    /\ UNCHANGED <<pc, ConfigVars, StepVars, metrics_legacy, probe>>

\* add_transition_batch's loop: an exception inside one transition's
\* ingestion is swallowed and the loop goes on.
RECURSIVE StoreAll(_, _, _, _)
StoreAll(t, transitions, i, episode_finished) ==
    IF i > Len(transitions)
    THEN [t |-> t, episode_finished |-> episode_finished]
    ELSE LET tr == transitions[i]
             skip == tr.reward = NotANumber \/ ~(IsList(tr.obs) /\ IsList(tr.action))
             st == _store_transition(t, _role_from_obs(tr.obs), tr.obs,
                                     tr.action, tr.reward, tr.done,
                                     tr.next_obs, tr.agent, tr.info)
         IN  StoreAll(IF skip THEN t ELSE st.t, transitions, i + 1,
                      episode_finished \/ (~skip /\ ~st.raised /\ st.ret))

\* The result carries the trainer state, stored (the state after the loop),
\* finished (an episode flush followed) and raised (log_episode raised).
BatchFlush(r, appendOk) ==
    IF r.episode_finished
    THEN [stored |-> r.t, finished |-> TRUE, le |-> log_episode(r.t, appendOk)]
    ELSE [stored |-> r.t, finished |-> FALSE, le |-> [t |-> r.t, raised |-> FALSE]]

add_transition_batch(t, transitions, appendOk) ==
    BatchFlush(StoreAll(t, transitions, 1, FALSE), appendOk)

\* The "transition_batch" branch of handle() for a list of transitions.
BatchAfterUpdate(b, mu) ==
    [t |-> mu.t, stored |-> b.stored, finished |-> b.finished,
     raised |-> mu.crashed]

BatchAfterFlush(b, out, saveOk) ==
    IF b.le.raised
    THEN [t |-> b.le.t, stored |-> b.stored, finished |-> b.finished,
          raised |-> TRUE]
    ELSE BatchAfterUpdate(b, maybe_update(b.le.t, out, saveOk))

TransitionBatchBranch(t, transitions, out, saveOk, appendOk) ==
    BatchAfterFlush(add_transition_batch(t, transitions, appendOk), out, saveOk)

\* A "transition_batch" message whose transitions field is a list.
HandleTransitionBatch(transitions, out, saveOk, appendOk, lim) ==
    /\ AtLoopHead
    /\ InstallBranch(TransitionBatchBranch(State, transitions, out, saveOk,
                                           appendOk), lim)
    /\ h_msg' = [type |-> "transition_batch", n |-> Len(transitions),
                 pre_cfg |-> cfg, saveOk |-> saveOk, appendOk |-> appendOk,
                 finished |-> TransitionBatchBranch(State, transitions, out,
                                                    saveOk, appendOk).finished,
                 faulty |-> \E i \in 1..Len(transitions) :
                                Fault(transitions[i]) # "",
                 sent |-> <<>>,
                 ended |-> TransitionBatchBranch(State, transitions, out,
                                                 saveOk, appendOk).raised]
    /\ UNCHANGED <<pc, ConfigVars, StepVars, metrics_legacy, probe>>

\* A frame handle() reads and drops: text that is no JSON (json.loads
\* raises, `continue`), or a "transition_batch" whose transitions field is
\* no list.
HandleDropped(why) ==
    /\ AtLoopHead
    /\ Install(State)
    /\ h_msg' = [type |-> why, sent |-> <<>>, ended |-> FALSE]
    /\ UNCHANGED <<pc, ConfigVars, StepVars, metrics_legacy, probe>>

\* A frame whose JSON value is no object (a list, a number, a string, null):
\* data.get raises.
HandleNonObject ==
    /\ AtLoopHead
    /\ Install(State)
    /\ h_msg' = [type |-> "not_an_object", sent |-> <<>>, ended |-> TRUE]
    /\ UNCHANGED <<pc, ConfigVars, StepVars, metrics_legacy, probe>>

\* An object of any other type (typ is "" for a missing type): the echo.
HandleOther(typ) ==
    /\ AtLoopHead
    /\ Install(State)
    /\ h_msg' = [type |-> "other", data |-> [type |-> typ],
                 sent |-> <<[type |-> "echo", recv |-> [type |-> typ]]>>,
                 ended |-> FALSE]
    /\ UNCHANGED <<pc, ConfigVars, StepVars, metrics_legacy, probe>>

(***************************************************************************)
(* Inputs.                                                                 *)
(***************************************************************************)
S9 == MkObs(9, 5, 0)
H9 == MkObs(9, 4, 0)
S10 == MkObs(10, 5, 0)
H10 == MkObs(10, 4, 0)

Tr(obs, action, reward, done, next_obs, agent) ==
    [obs |-> obs, action |-> action, reward |-> reward, done |-> done,
     next_obs |-> next_obs, agent |-> agent, info |-> NoInfo]

\* The same transition with an info that carries episode fields.
WithInfo(tr, info) == [tr EXCEPT !.info = info]

\* The constructor on a file system that raises nothing.
BootStep == Boot(TRUE, TRUE)

(***************************************************************************)
(* SpecDim: observations of two widths; no episode ends.                   *)
(***************************************************************************)
DimMaxBuf == 2
DimMaxEpLen == 2
DimMaxUpdates == 2

DimLim == Limits(DimMaxBuf, DimMaxEpLen, DimMaxUpdates, 1)

DimObs == {S9, H9, S10}
DimTrs ==
    {Tr(o, <<1, 0, 0>>, 1, FALSE, NoObs, "") : o \in DimObs}
    \cup {Tr(S10, <<1, 0, 0>>, 1, FALSE, S9, "")}
DimOuts == {[r \in RoleSet |-> o] : o \in {"ok", "highkl"}}

InitDim == InitWith({2}, {2}, {2}, {1}, {NoFile}, {NoFile}, {NoProbe})

ActDimStep == \E obs \in DimObs : HandleAct(obs, <<0, 0, 0>>)

TransitionDimStep ==
    \E tr \in DimTrs, out \in DimOuts :
        HandleTransition(tr, out, TRUE, TRUE, DimLim)

NextDim == BootStep \/ ActDimStep \/ TransitionDimStep

SpecDim == InitDim /\ [][NextDim]_vars

(***************************************************************************)
(* Claims checked under SpecDim.                                           *)
(***************************************************************************)
DimChanged ==
    /\ h_infer.kind = "action"
    /\ h_infer.pre_cfg # NoCfg
    /\ h_infer.pre_cfg.obs_dim # h_infer.obs_len

C10_MismatchNeverBuffered ==
    (/\ h_msg.type = "transition"
     /\ h_msg.pre_cfg # NoCfg
     /\ h_msg.obs_len # h_msg.pre_cfg.obs_dim)
    => \A r \in RoleSet : \A i \in 1..Len(buffers[r].obs) :
           Len(buffers[r].obs[i]) = cfg.obs_dim

(***************************************************************************)
(* SpecUpdate: one width, gamma = lam = 1, updates of every outcome; a run  *)
(* reports the transitions of one role, either one.                        *)
(***************************************************************************)
UpdMaxBuf == 2
UpdMaxEpLen == 2
UpdMaxUpdates == 2
UpdMaxEpisodes == 1

UpdLim == Limits(UpdMaxBuf, UpdMaxEpLen, UpdMaxUpdates, UpdMaxEpisodes)

\* The observation of the run's role.
UpdObs == IF probe.role = "seeker" THEN S9 ELSE H9
UpdTrs ==
    {Tr(UpdObs, <<1, 0, 0>>, 1, FALSE, n, "") : n \in {NoObs, UpdObs}}
    \cup {Tr(UpdObs, <<1, 0, 0>>, r, TRUE, NoObs, "") : r \in {2, 3}}
UpdOuts == {[r \in RoleSet |-> o] : o \in {"ok", "nonfinite", "highkl", "raise"}}

InitUpdate ==
    InitWith({2}, {2}, {2}, {1}, {NoFile}, {NoFile},
             {[kind |-> "run", role |-> r] : r \in RoleSet})

ActUpdateStep == HandleAct(UpdObs, <<0, 0, 0>>)

TransitionUpdateStep ==
    \E tr \in UpdTrs, out \in UpdOuts : HandleTransition(tr, out, TRUE, TRUE, UpdLim)

NextUpdate == BootStep \/ ActUpdateStep \/ TransitionUpdateStep

SpecUpdate == InitUpdate /\ [][NextUpdate]_vars

(***************************************************************************)
(* Claims checked under SpecUpdate.                                        *)
(***************************************************************************)
Attempted(r) == h_upd[r].kind = "attempt"

BadCause(r) == h_upd[r].cause \in {"nonfinite", "highkl", "raise"}

\* C2: after an update attempt whose losses are not finite, whose KL is over
\* five times the target, or whose gradient computation raised, the role's
\* policy and value parameters equal the snapshot taken before the attempt
\* and the attempt reports batch_size 0.
C2_RollbackRestores ==
    \A r \in RoleSet :
        (Attempted(r) /\ BadCause(r)) =>
            /\ h_upd[r].after = h_upd[r].snapshot
            /\ policies[r].pi = h_upd[r].snapshot.pi
            /\ policies[r].vf = h_upd[r].snapshot.vf
            /\ h_upd[r].info.rolled_back
            /\ h_upd[r].info.batch_size = 0

\* A rolled-back attempt on a policy that earlier updates had already moved.
C2_Witness ==
    \E r \in RoleSet :
        /\ Attempted(r)
        /\ h_upd[r].cause = "nonfinite"
        /\ h_upd[r].snapshot.pi > 0
        /\ h_upd[r].snapshot.vf > 0

\* C3: after maybe_update returns following a rolled-back update of a role,
\* none of that batch's transitions are in that role's buffer.
C3_RolledBackBatchDiscarded ==
    \A r \in RoleSet :
        (Attempted(r) /\ h_upd[r].info.rolled_back) => buffers[r] = _make_buffer

TwoStepEpisode(r) ==
    /\ Attempted(r)
    /\ gamma = 2
    /\ lam = 2
    /\ Len(h_upd[r].data.rew) = 2
    /\ ~h_upd[r].data.done[1]
    /\ h_upd[r].data.done[2]

\* C9 as stated: in a two-transition batch with gamma = lam = 1 and done only
\* on the second transition, the first advantage is
\* reward[0] + reward[1] - value[0], whatever values ingestion stored.
C9_TwoStepAdvantage ==
    \A r \in RoleSet :
        TwoStepEpisode(r) =>
            h_upd[r].adv[1] = Scale * (h_upd[r].data.rew[1] + h_upd[r].data.rew[2]
                                       - h_upd[r].data.val[1])

\* C9 amended: the first advantage is reward[0] + reward[1] - value[0] plus
\* the difference between the first transition's stored next-value and the
\* second transition's stored value, so the stated equality holds exactly
\* when these two stored estimates agree.
C9_TwoStepAdvantageAmended ==
    \A r \in RoleSet :
        TwoStepEpisode(r) =>
            /\ h_upd[r].adv[1] =
                   Scale * (h_upd[r].data.rew[1] + h_upd[r].data.rew[2]
                            - h_upd[r].data.val[1]
                            + h_upd[r].data.next_val[1] - h_upd[r].data.val[2])
            /\ (h_upd[r].adv[1] = Scale * (h_upd[r].data.rew[1] + h_upd[r].data.rew[2]
                                            - h_upd[r].data.val[1]))
               <=> (h_upd[r].data.next_val[1] = h_upd[r].data.val[2])

\* A two-step episode whose stored estimates agree and are not zero.
C9_Witness ==
    \E r \in RoleSet :
        /\ TwoStepEpisode(r)
        /\ h_upd[r].data.next_val[1] = h_upd[r].data.val[2]
        /\ h_upd[r].data.val[2] > 0
        /\ h_upd[r].data.rew[2] # h_upd[r].data.val[2]

(***************************************************************************)
(* SpecEpisode: episodes reported one transition at a time and in batches,  *)
(* mostly of the run's role (either one); every transition fills a batch.  *)
(***************************************************************************)
EpMaxBuf == 2
EpMaxEpLen == 2
EpMaxUpdates == 2
EpMaxEpisodes == 2

EpLim == Limits(EpMaxBuf, EpMaxEpLen, EpMaxUpdates, EpMaxEpisodes)

\* The observation of the run's role, and one of the other role.
EpObs == IF probe.role = "seeker" THEN S9 ELSE H9
EpOther == IF probe.role = "seeker" THEN H9 ELSE S9
EpTrs ==
    {Tr(EpObs, <<1, 0, 0>>, r, d, NoObs, "") : r \in {1, 2}, d \in BOOLEAN}
    \cup {Tr(EpOther, <<1, 0, 0>>, 1, FALSE, NoObs, "")}
EpBatches ==
    {<<Tr(EpObs, <<1, 0, 0>>, 1, d, NoObs, ""),
       Tr(EpObs, <<1, 0, 0>>, 2, ~d, NoObs, "")>> : d \in BOOLEAN}
    \cup {<<Tr(EpObs, <<1, 0, 0>>, 1, FALSE, NoObs, ""),
             Tr(EpOther, <<1, 0, 0>>, 2, TRUE, NoObs, "")>>}
EpOuts == {[r \in RoleSet |-> "ok"]}

InitEpisode ==
    InitWith({1}, {2}, {2}, {1}, {NoFile}, {NoFile},
             {[kind |-> "run", role |-> r] : r \in RoleSet})

ActEpisodeStep == HandleAct(EpObs, <<0, 0, 0>>)

TransitionEpisodeStep ==
    \E tr \in EpTrs, out \in EpOuts : HandleTransition(tr, out, TRUE, TRUE, EpLim)

BatchEpisodeStep ==
    \E trs \in EpBatches, out \in EpOuts :
        HandleTransitionBatch(trs, out, TRUE, TRUE, EpLim)

NextEpisode ==
    BootStep \/ ActEpisodeStep \/ TransitionEpisodeStep \/ BatchEpisodeStep

SpecEpisode == InitEpisode /\ [][NextEpisode]_vars

(***************************************************************************)
(* Claims checked under SpecEpisode.                                       *)
(***************************************************************************)
EpRewards == [i \in 1..Len(h_ep) |-> h_ep[i].rew]

\* The client's episode began on fresh statistics, is of one role, and its
\* last transition (and only that one) had done set.
EpisodeOfOneRole ==
    /\ h_ep # <<>>
    /\ h_fresh
    /\ Last(h_ep).done
    /\ \A i \in 1..(Len(h_ep) - 1) : ~h_ep[i].done
    /\ \A i \in 1..Len(h_ep) : h_ep[i].role = h_ep[1].role

\* C4: from fresh episode statistics, after N transitions of a role of which
\* only the last has done set, exactly one metrics row has been appended,
\* with steps = N and reward_sum the sum of the N rewards.
C4_OneRowPerEpisode ==
    EpisodeOfOneRole =>
        /\ Len(metrics_csv.rows) = h_rows0 + 1
        /\ Last(metrics_csv.rows).steps = Len(h_ep)
        /\ Last(metrics_csv.rows).reward_sum = SumSeq(EpRewards)

\* A second episode, of two transitions with unequal rewards reported in one
\* batch.
C4_Witness ==
    /\ EpisodeOfOneRole
    /\ h_msg.type = "transition_batch"
    /\ Len(h_ep) = 2
    /\ h_rows0 = 1
    /\ h_ep[1].rew # h_ep[2].rew

(***************************************************************************)
(* SpecCkpt: hider transitions of two widths, every one of them a batch;   *)
(* two checkpoints of a role are kept.                                     *)
(***************************************************************************)
CkptKeep == 2
CkptMaxBuf == 2
CkptMaxEpLen == 6
CkptMaxUpdates == 5

CkptLim == Limits(CkptMaxBuf, CkptMaxEpLen, CkptMaxUpdates, 1)

CkptObs == {H9, H10}
CkptTrs == {Tr(o, <<1, 0, 0>>, 1, FALSE, NoObs, "") : o \in CkptObs}
CkptOuts == {[r \in RoleSet |-> "ok"]}

InitCkpt == InitWith({1}, {2}, {2}, {CkptKeep}, {NoFile}, {NoFile}, {NoProbe})

ActCkptStep == \E obs \in CkptObs : HandleAct(obs, <<0, 0, 0>>)

TransitionCkptStep ==
    \E tr \in CkptTrs, out \in CkptOuts : HandleTransition(tr, out, TRUE, TRUE, CkptLim)

NextCkpt == BootStep \/ ActCkptStep \/ TransitionCkptStep

SpecCkpt == InitCkpt /\ [][NextCkpt]_vars

(***************************************************************************)
(* Claims checked under SpecCkpt.                                          *)
(***************************************************************************)
\* C5: with max_checkpoints = K > 0 at most K checkpoint files of a role
\* exist after every save, and once K + 3 updates of a role have succeeded
\* (each one saved) exactly K files of that role remain.
C5_RetentionKeepsK ==
    \A r \in RoleSet :
        /\ Cardinality(RoleFiles(checkpoint_dir, r)) <= max_checkpoints
        /\ h_saves[r] >= max_checkpoints + 3 =>
               Cardinality(RoleFiles(checkpoint_dir, r)) = max_checkpoints

(***************************************************************************)
(* SpecBoot: the trainer starts on every kind of metrics log, with a file  *)
(* system that may refuse the read or the rename, and then logs episodes.  *)
(***************************************************************************)
BootMaxBuf == 2
BootMaxEpLen == 2
BootMaxUpdates == 1
BootMaxEpisodes == 2

BootLim == Limits(BootMaxBuf, BootMaxEpLen, BootMaxUpdates, BootMaxEpisodes)

\* A row an earlier run of the same schema logged.
PriorRow ==
    [episode |-> 1, episode_id |-> 1, reward_sum |-> 1, steps |-> 1, updates |-> 0,
     seeker_reward_sum |-> 1, seeker_steps |-> 1,
     hider_reward_sum |-> 0, hider_steps |-> 0]

\* A row of an earlier schema.
OldRow(n) == [episode |-> n, reward_mean |-> 1, reward_sum |-> n, steps |-> n]

BootLogs ==
    {NoFile,
     HeaderOnly,
     [exists |-> TRUE, header |-> Header, rows |-> <<PriorRow>>],
     [exists |-> TRUE, header |-> Header \o <<" ">>, rows |-> <<PriorRow>>],
     [exists |-> TRUE, header |-> OldHeader, rows |-> <<OldRow(1)>>],
     [exists |-> TRUE, header |-> <<>>, rows |-> <<>>]}

BootLegacies ==
    {NoFile, [exists |-> TRUE, header |-> OldHeader, rows |-> <<OldRow(7)>>]}

BootTrs == {Tr(S9, <<1, 0, 0>>, 1, d, NoObs, "") : d \in BOOLEAN}

InitBoot == InitWith({2}, {2}, {2}, {1}, BootLogs, BootLegacies, {NoProbe})

BootAnyStep == \E readOk \in BOOLEAN, replaceOk \in BOOLEAN : Boot(readOk, replaceOk)

ActBootStep == HandleAct(S9, <<0, 0, 0>>)

TransitionBootStep ==
    \E tr \in BootTrs : HandleTransition(tr, [r \in RoleSet |-> "ok"], TRUE, TRUE, BootLim)

NextBoot == BootAnyStep \/ ActBootStep \/ TransitionBootStep

SpecBoot == InitBoot /\ [][NextBoot]_vars

(***************************************************************************)
(* Claims checked under SpecBoot.                                          *)
(***************************************************************************)
\* The first line as the comparison sees it: without surrounding white space.
FirstLine(file) == Strip(file.header)

\* C6: at trainer start, a metrics log whose first line differs from the
\* current header is renamed aside with its contents and a log of just the
\* header is started; a log whose header matches is left unchanged; where no
\* log exists one with just the header is created.
C6_HeaderMigration ==
    h_msg.type = "boot" =>
        IF ~h_msg.before.exists
        THEN /\ metrics_csv = HeaderOnly
             /\ metrics_legacy = h_msg.legacy_before
        ELSE IF FirstLine(h_msg.before) # Header
        THEN /\ metrics_csv = HeaderOnly
             /\ metrics_legacy = h_msg.before
        ELSE /\ metrics_csv = h_msg.before
             /\ metrics_legacy = h_msg.legacy_before

(***************************************************************************)
(* SpecRole: the role router on observations of every length and flag.     *)
(***************************************************************************)
RoleLens == {0, 8, 9, 10}
RoleFlags == {-5, 0, 4, 5, 6, 10}
RoleFill == {-5, 0, 5, 10}
RoleObs == {MkObs(n, f, x) : n \in RoleLens, f \in RoleFlags, x \in RoleFill}

InitRole ==
    InitWith({2}, {2}, {2}, {1}, {NoFile}, {NoFile},
             {[kind |-> "obs", obs |-> o] : o \in RoleObs})

\* One call of _role_from_obs; it assigns nothing.
RouteStep ==
    /\ probe.kind = "obs"
    /\ probe' = [kind |-> "role", obs |-> probe.obs,
                 result |-> _role_from_obs(probe.obs)]
    /\ UNCHANGED <<pc, ConfigVars, StepVars, TrainerVars, metrics_csv, metrics_legacy, h_msg>>

NextRole == BootStep \/ RouteStep

SpecRole == InitRole /\ [][NextRole]_vars

\* C7: the router answers seeker exactly when the feature at index 8 exists
\* and is at least 0.5, and hider otherwise; observations that agree on that
\* feature are routed alike, and the call leaves the trainer as it was.
C7_RoleFromFlagOnly ==
    probe.kind = "role" =>
        /\ probe.result = IF Len(probe.obs) >= 9 /\ probe.obs[9] >= 5
                          THEN "seeker"
                          ELSE "hider"
        /\ \A o \in RoleObs :
               (Len(o) >= 9 /\ Len(probe.obs) >= 9 /\ o[9] = probe.obs[9])
                   => _role_from_obs(o) = probe.result
        /\ cfg = NoCfg
        /\ policies = EmptyMap
        /\ act_cache = EmptyMap
        /\ \A r \in RoleSet : buffers[r] = _make_buffer

\* A seeker routed on the threshold itself, the other features not zero.
C7_Witness ==
    /\ probe.kind = "role"
    /\ probe.result = "seeker"
    /\ Len(probe.obs) = 10
    /\ probe.obs[9] = 5
    /\ probe.obs[1] = 10

(***************************************************************************)
(* SpecGae: the advantage loop on batches of every content, for every      *)
(* gamma and lam in {0, 0.5, 1}.                                           *)
(***************************************************************************)
GaeMaxLen == 2

GaeSteps == [rew : {1, 3}, val : {0, 2}, next_val : {0, 1}, done : BOOLEAN]
GaeTraces == UNION {[1..k -> GaeSteps] : k \in 1..GaeMaxLen}
GaeData(tr) ==
    [rew |-> [i \in DOMAIN tr |-> tr[i].rew],
     val |-> [i \in DOMAIN tr |-> tr[i].val],
     next_val |-> [i \in DOMAIN tr |-> tr[i].next_val],
     done |-> [i \in DOMAIN tr |-> tr[i].done]]

InitGae ==
    InitWith({2}, {0, 1, 2}, {0, 1, 2}, {1}, {NoFile}, {NoFile},
             {[kind |-> "batch", data |-> GaeData(tr)] : tr \in GaeTraces})

\* The backward loop of _update_role on the batch; it assigns nothing else.
GaeStep ==
    /\ probe.kind = "batch"
    /\ probe' = [kind |-> "adv", data |-> probe.data,
                 adv |-> Advantages(probe.data), ret |-> Returns(probe.data)]
    /\ UNCHANGED <<pc, ConfigVars, StepVars, TrainerVars, metrics_csv, metrics_legacy, h_msg>>

NextGae == BootStep \/ GaeStep

SpecGae == InitGae /\ [][NextGae]_vars

SingleDone ==
    /\ probe.kind = "adv"
    /\ Len(probe.data.rew) = 1
    /\ probe.data.done[1]

\* C8: for a batch of one transition with done set, whatever gamma and lam,
\* the advantage is reward[0] - value[0].
C8_SingleStepAdvantage ==
    SingleDone => probe.adv[1] = Scale * (probe.data.rew[1] - probe.data.val[1])

\* A one-transition batch with a next-value stored and gamma, lam not zero.
C8_Witness ==
    /\ SingleDone
    /\ gamma = 1
    /\ lam = 2
    /\ probe.data.next_val[1] = 1
    /\ probe.data.val[1] = 2

\* The recursion as it is stated: mask, delta and A of index i of the batch,
\* A past the last index being 0; in 1/Scale, gamma and lam in halves.
StatedMask(data, i) == IF data.done[i] THEN 0 ELSE 1

StatedDelta(data, i) ==
    Scale * data.rew[i]
    + (gamma * Scale * data.next_val[i] * StatedMask(data, i)) \div 2
    - Scale * data.val[i]

RECURSIVE StatedA(_, _)
StatedA(data, i) ==
    IF i = Len(data.rew) + 1
    THEN 0
    ELSE StatedDelta(data, i)
         + (gamma * lam * StatedMask(data, i) * StatedA(data, i + 1)) \div 4

\* C27: for every batch the advantages of the update are the stated backward
\* recursion and the returns are advantage plus value; the advantage of a
\* transition with done set is reward minus value, whatever follows it in
\* the batch.
C27_AdvantagesAreTheRecursion ==
    probe.kind = "adv" =>
        \A i \in 1..Len(probe.data.rew) :
            /\ probe.adv[i] = StatedA(probe.data, i)
            /\ probe.ret[i] = StatedA(probe.data, i) + Scale * probe.data.val[i]
            /\ probe.data.done[i] =>
                  probe.adv[i] = Scale * (probe.data.rew[i] - probe.data.val[i])

\* A batch of the greatest length in which a done transition is followed by
\* one that is not done and has a next-value, gamma and lam being 1.
C27_Witness ==
    /\ probe.kind = "adv"
    /\ Len(probe.data.rew) = GaeMaxLen
    /\ gamma = 2
    /\ lam = 2
    /\ probe.data.done[GaeMaxLen - 1]
    /\ ~probe.data.done[GaeMaxLen]
    /\ probe.data.next_val[GaeMaxLen] = 1
    /\ probe.adv[GaeMaxLen] # 0

(***************************************************************************)
(* SpecMsg: frames of every kind handle() can read, well-typed and not, on *)
(* observations of one width from named agents and from the single agent.  *)
(***************************************************************************)
MsgMaxBuf == 1
MsgMaxEpLen == 1
MsgMaxUpdates == 1
MsgMaxEpisodes == 1

MsgLim == Limits(MsgMaxBuf, MsgMaxEpLen, MsgMaxUpdates, MsgMaxEpisodes)

Entry(name, arr) == [name |-> name, arr |-> arr]

ObsDict(entries) == [is_dict |-> TRUE, entries |-> entries]

\* An obs field that is a list, a number, a string or null.
NotADict == [is_dict |-> FALSE, entries |-> <<>>]

MsgDicts ==
    {NotADict,
     ObsDict(<<>>),
     ObsDict(<<Entry("a", S9), Entry("b", NoObs)>>),
     ObsDict(<<Entry("b", H9), Entry("a", S9)>>),
     ObsDict(<<Entry("", S9), Entry("a", NoObs)>>),
     ObsDict(<<Entry("a", S9), Entry("b", H10)>>)}

MsgTrs ==
    {Tr(S9, <<1, 0, 0>>, 1, FALSE, NoObs, "a"),
     Tr(S9, <<1, 0, 0>>, 1, TRUE, NoObs, "")}
    \cup {Tr(S9, <<1, 0, 0>>, NotANumber, FALSE, NoObs, ""),
          Tr(NoObs, <<1, 0, 0>>, 1, FALSE, NoObs, ""),
          Tr(S9, NoObs, 1, FALSE, NoObs, ""),
          Tr(S9, <<1>>, 1, FALSE, NoObs, "a")}

MsgBatches ==
    {<<Tr(S9, <<1, 0, 0>>, NotANumber, FALSE, NoObs, ""),
       Tr(S9, <<1, 0, 0>>, 1, FALSE, NoObs, "a")>>,
     <<Tr(S9, <<1>>, 1, FALSE, NoObs, "a"),
       Tr(NoObs, <<1, 0, 0>>, 1, FALSE, NoObs, "")>>}

MsgOuts == {[r \in RoleSet |-> "ok"]}

InitMsg == InitWith({2}, {2}, {2}, {1}, {NoFile}, {NoFile}, {NoProbe})

ActMsgStep == \E obs \in {S9, NoObs} : HandleAct(obs, <<1, 0, 0>>)

ActBatchMsgStep == \E d \in MsgDicts : HandleActBatch(d, <<1, 0, 0>>)

TransitionMsgStep ==
    \E tr \in MsgTrs, out \in MsgOuts : HandleTransition(tr, out, TRUE, TRUE, MsgLim)

BatchMsgStep ==
    \E trs \in MsgBatches, out \in MsgOuts :
        HandleTransitionBatch(trs, out, TRUE, TRUE, MsgLim)

DroppedMsgStep ==
    \E why \in {"malformed_json", "transitions_not_list"} : HandleDropped(why)

OtherMsgStep == \E typ \in {"", "ping"} : HandleOther(typ)

NextMsg ==
    \/ BootStep
    \/ ActMsgStep
    \/ ActBatchMsgStep
    \/ TransitionMsgStep
    \/ BatchMsgStep
    \/ DroppedMsgStep
    \/ HandleNonObject
    \/ OtherMsgStep

SpecMsg == InitMsg /\ [][NextMsg]_vars

(***************************************************************************)
(* Claims checked under SpecMsg.                                           *)
(***************************************************************************)
\* The last frame was no JSON, no JSON object, or had a field of a type its
\* branch does not take.
IllTyped ==
    \/ h_msg.type \in {"malformed_json", "not_an_object", "transitions_not_list"}
    \/ h_msg.type = "act" /\ h_msg.sent # <<>> /\ h_msg.sent[1].error # ""
    \/ h_msg.type = "act_batch" /\ ~h_msg.obs_dict.is_dict
    \/ h_msg.type = "transition" /\ h_msg.fault # ""
    \/ h_msg.type = "transition_batch" /\ h_msg.faulty

\* C11: no frame that is no JSON, no JSON object, or that has a missing or
\* ill-typed field (a non-numeric reward, an act_batch obs that is no
\* mapping, an action list shorter than two) ends the handler loop: the
\* frame is dropped or defaulted and the loop reads the next one.
C11_IllTypedNeverEndsLoop == IllTyped => ~h_msg.ended

\* C12: every act frame is answered by exactly one action frame, every
\* act_batch frame by exactly one action_batch frame, every frame of another
\* type by exactly one echo of itself; transition and transition_batch
\* frames and text that is no JSON are answered by nothing.  (A handler
\* sends before the next frame is read, so answers keep the order of their
\* requests.)
C12_OneResponsePerRequest ==
    /\ h_msg.type = "act" =>
          Len(h_msg.sent) = 1 /\ h_msg.sent[1].type = "action"
    /\ h_msg.type = "act_batch" =>
          Len(h_msg.sent) = 1 /\ h_msg.sent[1].type = "action_batch"
    /\ h_msg.type \in {"transition", "transition_batch", "transitions_not_list",
                       "malformed_json"} =>
          h_msg.sent = <<>>
    /\ h_msg.type = "other" =>
          h_msg.sent = <<[type |-> "echo", recv |-> h_msg.data]>>

\* The Trainer's fields and the files it writes.
TrainerFields ==
    <<cfg, policies, buffers, act_cache, updates_done, global_updates,
      episodes_logged, current_ep_rewards, current_ep_steps,
      current_ep_duration, current_ep_winner, current_ep_terminal_reason,
      current_ep_episode_id, metrics_csv,
      metrics_legacy, checkpoint_dir, legacy_policy, fs_clock>>

\* C13: an act frame whose obs is no list is answered by the action
\* [0, 0, 0] with info.error = "invalid_obs", and its handling changes no
\* field of the trainer and no file.
C13_InvalidObsAnswered ==
    [][(h_msg'.type = "act" /\ ~h_msg'.obs_is_list) =>
           /\ h_msg'.sent = <<[type |-> "action", action |-> <<0, 0, 0>>,
                               error |-> "invalid_obs"]>>
           /\ ~h_msg'.ended
           /\ UNCHANGED TrainerFields]_vars

\* An act frame with an obs that is no list, read when policies exist, a
\* transition is buffered and an inference is cached.
C13_Witness ==
    /\ h_msg.type = "act"
    /\ ~h_msg.obs_is_list
    /\ cfg # NoCfg
    /\ DOMAIN act_cache # {}
    /\ \E r \in RoleSet : buffers[r].obs # <<>>

\* The last frame was an act_batch whose obs is a mapping.
BatchActed == h_msg.type = "act_batch" /\ h_msg.obs_dict.is_dict

\* The agent ids of the last act_batch whose value is a list.
ListedAgents ==
    {h_msg.obs_dict.entries[i].name :
        i \in {j \in 1..Len(h_msg.obs_dict.entries) :
                  h_msg.obs_dict.entries[j].arr # NoObs}}

\* The agent ids of the last act_batch whose value is no list.
SkippedAgents ==
    {h_msg.obs_dict.entries[i].name :
        i \in {j \in 1..Len(h_msg.obs_dict.entries) :
                  h_msg.obs_dict.entries[j].arr = NoObs}}

\* The key act_with_cache stores an agent's inference under.
CacheKey(name) == IF name = "" THEN SingleKey ELSE name

SameEntry(k) ==
    /\ k \in DOMAIN act_cache <=> k \in DOMAIN h_msg.pre_cache
    /\ k \in DOMAIN act_cache => act_cache[k] = h_msg.pre_cache[k]

NoWidthChange ==
    \A i, j \in 1..Len(h_msg.obs_dict.entries) :
        LET a == h_msg.obs_dict.entries[i].arr
            b == h_msg.obs_dict.entries[j].arr
        IN  a # NoObs /\ b # NoObs =>
                /\ Len(a) = Len(b)
                /\ h_msg.pre_cfg # NoCfg => Len(a) = h_msg.pre_cfg.obs_dim

IoMaxBuf == 2
IoMaxEpLen == 2
IoMaxUpdates == 2
IoMaxEpisodes == 2

IoLim == Limits(IoMaxBuf, IoMaxEpLen, IoMaxUpdates, IoMaxEpisodes)

IoTrs == {Tr(S9, <<1, 0, 0>>, 1, d, NoObs, n) : d \in BOOLEAN, n \in {"", "a"}}

IoBatches ==
    {<<Tr(S9, <<1, 0, 0>>, 1, TRUE, NoObs, "a"),
       Tr(S9, <<1, 0, 0>>, 1, FALSE, NoObs, "")>>}

IoOuts == {[r \in RoleSet |-> o] : o \in {"ok", "highkl"}}

InitIo == InitWith({1}, {2}, {2}, {1}, {NoFile}, {NoFile}, {NoProbe})

ActIoStep == HandleAct(S9, <<1, 0, 0>>)

ActBatchIoStep == HandleActBatch(ObsDict(<<Entry("a", S9)>>), <<1, 0, 0>>)

TransitionIoStep ==
    \E tr \in IoTrs, out \in IoOuts, saveOk, appendOk \in BOOLEAN :
        HandleTransition(tr, out, saveOk, appendOk, IoLim)

BatchIoStep ==
    \E trs \in IoBatches, out \in IoOuts, saveOk, appendOk \in BOOLEAN :
        HandleTransitionBatch(trs, out, saveOk, appendOk, IoLim)

NextIo ==
    \/ BootStep
    \/ ActIoStep
    \/ ActBatchIoStep
    \/ TransitionIoStep
    \/ BatchIoStep

SpecIo == InitIo /\ [][NextIo]_vars

(***************************************************************************)
(* Claims checked under SpecIo.                                            *)
(***************************************************************************)
Ingested == h_msg.type \in {"transition", "transition_batch"}

\* The last frame's update of some role was kept while its checkpoint could
\* not be written.
SaveFailed ==
    /\ Ingested
    /\ ~h_msg.saveOk
    /\ \E r \in RoleSet : h_upd[r].kind = "attempt" /\ ~h_upd[r].info.rolled_back

\* The last frame ended an episode while metrics.csv could not be appended to.
AppendFailed == Ingested /\ h_msg.finished /\ ~h_msg.appendOk

\* C15: a checkpoint write or a metrics append that fails does not leave the
\* handling of the transition that caused it: the loop goes on, and after a
\* failed append the episode statistics are reset all the same.
C15_PersistenceFailureNonFatal ==
    /\ SaveFailed => ~h_msg.ended
    /\ AppendFailed => ~h_msg.ended /\ StatsFresh(State)

(***************************************************************************)
(* SpecFallback: runs with and without torch; without it ensure_policy     *)
(* builds nothing and no role has a policy.                                *)
(***************************************************************************)
FbMaxBuf == 1
FbMaxEpLen == 1
FbMaxUpdates == 1
FbMaxEpisodes == 1

FbLim == Limits(FbMaxBuf, FbMaxEpLen, FbMaxUpdates, FbMaxEpisodes)

\* What the policy samples, or random.uniform(-1, 1) draws, in whole units.
FbSamples == {<<1, -1, 1>>, <<0, 1, -1>>}

FbTrs == {Tr(S9, <<1, 0, 0>>, 1, d, NoObs, "") : d \in BOOLEAN}

InitFallback ==
    InitAll({2}, {2}, {2}, {1}, {NoFile}, {NoFile}, {NoProbe}, BOOLEAN)

ActFallbackStep == \E obs \in {S9, H9}, smp \in FbSamples : HandleAct(obs, smp)

ActBatchFallbackStep ==
    \E smp \in FbSamples :
        HandleActBatch(ObsDict(<<Entry("a", S9), Entry("b", H9)>>), smp)

TransitionFallbackStep ==
    \E tr \in FbTrs :
        HandleTransition(tr, [r \in RoleSet |-> "ok"], TRUE, TRUE, FbLim)

NextFallback ==
    \/ BootStep
    \/ ActFallbackStep
    \/ ActBatchFallbackStep
    \/ TransitionFallbackStep

SpecFallback == InitFallback /\ [][NextFallback]_vars

(***************************************************************************)
(* Claims checked under SpecFallback.                                      *)
(***************************************************************************)
\* The last inference found no policy for the observation's role.
FellBack == h_infer.kind = "fallback"

\* C16: an inference for a role without a policy returns an action whose
\* first two components lie in [-1, 1] and whose third is 0, with
\* log-probability 0 and value 0; the caller gets the action and no error,
\* and the action cache is as it was.
C16_FallbackAction ==
    FellBack =>
        /\ h_infer.action[1] \in -1..1
        /\ h_infer.action[2] \in -1..1
        /\ h_infer.action[3] = 0
        /\ h_infer.logp = 0
        /\ h_infer.value = 0
        /\ act_cache = h_infer.pre_cache
        /\ ~h_msg.ended
        /\ h_msg.type = "act" =>
              h_msg.sent = <<[type |-> "action", action |-> h_infer.action,
                              error |-> ""]>>
        /\ h_msg.type = "act_batch" =>
              /\ Len(h_msg.sent) = 1
              /\ \A n \in DOMAIN h_msg.sent[1].actions :
                    h_msg.sent[1].actions[n][3] = 0

\* A fallback action with components that are not zero, for a seeker
\* observation, after transitions were buffered.
C16_Witness ==
    /\ FellBack
    /\ h_infer.role = "seeker"
    /\ h_infer.action[1] # 0
    /\ h_infer.action[2] # 0
    /\ \E r \in RoleSet : buffers[r].obs # <<>>

(***************************************************************************)
(* Further claims checked under SpecIo.                                    *)
(***************************************************************************)
\* C17: a cache entry is consumed by at most one transition, which removes
\* it, or is discarded at the end of the episode: after a transition that
\* found an entry under its agent's key the key is gone, and after a frame
\* that ended an episode the cache is empty.
C17_CacheEntryConsumedOnce ==
    /\ (h_msg.type = "transition" /\ h_msg.hit) =>
           h_msg.key \notin DOMAIN act_cache
    /\ (Ingested /\ h_msg.finished) => act_cache = EmptyMap

(***************************************************************************)
(* The "transition" handler line by line: the places inside one call of    *)
(* _store_transition and of PPOAgent.update at which the trainer's fields  *)
(* differ from what the finished handler leaves.  frame keeps the trainer  *)
(* as the frame found it (t0) and the frame's inputs; every later place is *)
(* computed from them by the operators of the one-step handler.            *)
(***************************************************************************)
StoreOf(t, tr) ==
    _store_transition(t, _role_from_obs(tr.obs), tr.obs, tr.action, tr.reward,
                      tr.done, tr.next_obs, tr.agent, tr.info)

FlushOf(st, appendOk) ==
    IF st.ret THEN log_episode(st.t, appendOk) ELSE [t |-> st.t, raised |-> FALSE]

\* The first role of maybe_update's loop whose swapped-out batch reaches the
\* target, "" when there is none.
FirstFull(t) ==
    IF DOMAIN t.policies = {} THEN ""
    ELSE IF Len(t.buffers["seeker"].obs) >= batch_target THEN "seeker"
    ELSE IF Len(t.buffers["hider"].obs) >= batch_target THEN "hider"
    ELSE ""

\* Does the handler reach PPOAgent.update: the flush raised nothing, a role
\* has its batch, and np.array accepts the batch.
EntersUpdate(le) ==
    /\ ~le.raised
    /\ FirstFull(le.t) # ""
    /\ ~Ragged(le.t.buffers[FirstFull(le.t)].obs)

\* The trainer when the loop of maybe_update reaches role: the buffers were
\* swapped out, and a seeker batch below the target was merged back.
SwappedOut(t, role) ==
    [t EXCEPT !.buffers = [r \in RoleSet |->
                              IF role = "hider" /\ r = "seeker"
                              THEN t.buffers[r] ELSE _make_buffer]]

\* What the handler in flight comes to, worked out from its frame and its
\* trainer when it was entered, and carried along by the frame: the trainer
\* and the message at its end, the store and the flush.
FrameOf(t, tr, out, saveOk, appendOk) ==
    [t0 |-> t, tr |-> tr, out |-> out, saveOk |-> saveOk,
     appendOk |-> appendOk, role |-> "", iters |-> 0, stop |-> FALSE,
     st |-> StoreOf(t, tr),
     le |-> FlushOf(StoreOf(t, tr), appendOk),
     done |-> TransitionBranch(t, tr, out, saveOk, appendOk).t,
     msg |-> TransitionMsg(t, tr, out, saveOk, appendOk)]

FrameDone == frame.done

FrameMsg == frame.msg

\* The handler returns to the loop head.
LeaveHandler(t) ==
    /\ Install(t)
    /\ pc' = "run"
    /\ frame' = NoFrame
    /\ h_msg' = FrameMsg

\* The handler moves on to the place at.
MoveOn(t, at) ==
    /\ Install(t)
    /\ pc' = at
    /\ frame' = frame
    /\ h_msg' = h_msg

\* Line 409: the cached (logp, value) of the agent is popped.
StorePop(tr, out, saveOk, appendOk, lim) ==
    /\ AtLoopHead
    /\ Fault(tr) = ""
    /\ WithinBounds(StoreOf(State, tr).t, StoreOf(State, tr).ret, lim)
    /\ Install(_pull_cached_act(State, tr.agent).t)
    /\ pc' = "popped"
    /\ frame' = FrameOf(State, tr, out, saveOk, appendOk)
    /\ h_msg' = [type |-> "in_transition"]
    /\ UNCHANGED <<ConfigVars, lock, metrics_legacy, probe>>

\* Lines 410-439: the offline evaluation and the next value (either may
\* raise), then `with self.lock` is entered and the seven columns appended.
StoreAppendOf(st) ==
    IF st.raised
    THEN LeaveHandler(st.t) /\ lock' = lock
    ELSE MoveOn([State EXCEPT !.buffers = st.t.buffers], "appended")
         /\ lock' = "held"

StoreAppend ==
    /\ pc = "popped"
    /\ StoreAppendOf(frame.st)
    /\ UNCHANGED <<ConfigVars, metrics_legacy, probe>>

\* Lines 440-455: the episode statistics, and the lock is left.
StoreStats ==
    /\ pc = "appended"
    /\ MoveOn([frame.st.t EXCEPT !.act_cache = act_cache], "stored")
    /\ lock' = "free"
    /\ UNCHANGED <<ConfigVars, metrics_legacy, probe>>

\* Lines 456-458 and the rest of the branch: the pop of a finished agent's
\* cache entry, the episode flush, and maybe_update up to the call of
\* PPOAgent.update, or to the handler's end when no update is due.
TransitionRestOf(le) ==
    IF EntersUpdate(le)
    THEN /\ Install(SwappedOut(le.t, FirstFull(le.t)))
         /\ pc' = "update"
         /\ frame' = [frame EXCEPT !.role = FirstFull(le.t)]
         /\ h_msg' = h_msg
    ELSE LeaveHandler(FrameDone)

TransitionRest ==
    /\ pc = "stored"
    /\ TransitionRestOf(frame.le)
    /\ UNCHANGED <<ConfigVars, lock, metrics_legacy, probe>>

\* PPOConfig.train_iters (80 in the code).
TrainIters == 2

\* What the update of the role in flight comes to: "raise" when its forward
\* pass raises, else the outcome given for the role.
UpdateCause == FrameDone.h_upd[frame.role].cause

\* The same going on after the early stop: a mutant of MayIterate.
MayIterate_IgnoreStop(iters, stop) == iters < TrainIters

\* `for _ in range(train_iters)` with the `break` of the last iteration.
MayIterate(iters, stop) == iters < TrainIters /\ ~stop

\* ppo.py 118-125, one iteration of PPOAgent.update up to the optimizer step
\* of the policy head: the parameters change in place.
GradientPi ==
    /\ pc = "update"
    /\ MayIterate(frame.iters, frame.stop)
    /\ UpdateCause # "raise"
    /\ MoveOn([State EXCEPT !.policies[frame.role].pi =
                                frame.t0.policies[frame.role].pi + 1],
              "update_pi")
    /\ UNCHANGED <<ConfigVars, lock, metrics_legacy, probe>>

\* ppo.py 126-133, the optimizer step of the value head and the test of the
\* approximate KL of this iteration against 1.5 target_kl.  An update whose
\* final KL is above 5 target_kl has a last iteration above 1.5 target_kl.
GradientVf ==
    /\ pc = "update_pi"
    /\ \E klHigh \in BOOLEAN :
          /\ (UpdateCause = "highkl" /\ frame.iters + 1 = TrainIters) => klHigh
          /\ Install([State EXCEPT !.policies[frame.role].vf =
                                       frame.t0.policies[frame.role].vf + 1])
          /\ frame' = [frame EXCEPT !.iters = @ + 1, !.stop = klHigh]
    /\ pc' = "update"
    /\ h_msg' = h_msg
    /\ UNCHANGED <<ConfigVars, lock, metrics_legacy, probe>>

\* The update returns, or its forward pass raises: rollback or not, the
\* other role's turn, the bookkeeping, and the handler's end.
UpdateLeave ==
    /\ pc = "update"
    /\ ~MayIterate(frame.iters, frame.stop) \/ UpdateCause = "raise"
    /\ LeaveHandler(FrameDone)
    /\ UNCHANGED <<ConfigVars, lock, metrics_legacy, probe>>

InUpdate == pc \in {"update", "update_pi"}

(***************************************************************************)
(* SpecStep: one role's frames, the handler of a transition taken line by  *)
(* line, updates that are kept and updates that are rolled back.           *)
(***************************************************************************)
StepMaxBuf == 2
StepMaxEpLen == 2
StepMaxUpdates == 2
StepMaxEpisodes == 1

StepLim == Limits(StepMaxBuf, StepMaxEpLen, StepMaxUpdates, StepMaxEpisodes)

StepTrs ==
    {Tr(S9, <<1, 0, 0>>, 1, d, NoObs, "") : d \in BOOLEAN}
    \cup {Tr(S9, <<1, 0, 0>>, 1, FALSE, S10, "")}

StepOuts == {[r \in RoleSet |-> o] : o \in {"ok", "highkl"}}

InitStep == InitWith({2}, {2}, {2}, {1}, {NoFile}, {NoFile}, {NoProbe})

ActStepStep == HandleAct(S9, <<1, 0, 0>>)

StorePopStep ==
    \E tr \in StepTrs, out \in StepOuts : StorePop(tr, out, TRUE, TRUE, StepLim)

NextStep ==
    \/ BootStep
    \/ ActStepStep
    \/ StorePopStep
    \/ StoreAppend
    \/ StoreStats
    \/ TransitionRest
    \/ GradientPi
    \/ GradientVf
    \/ UpdateLeave

SpecStep == InitStep /\ [][NextStep]_vars

(***************************************************************************)
(* Claims checked under SpecStep.                                          *)
(***************************************************************************)
\* The parameters of a role that are not in the middle of an update: while
\* an update of the role is in flight, those it began with and those the
\* handler installs at its end; otherwise those the policy holds.
SettledParams(role) ==
    IF InUpdate /\ frame.role = role
    THEN {_snapshot_policy(frame.t0, role), _snapshot_policy(FrameDone, role)}
    ELSE {_snapshot_policy(State, role)}

C19_StoreInOneCriticalSection ==
    pc \in {"popped", "appended"} => lock = "held"

(***************************************************************************)
(* SpecKeep: both roles, hider observations of two widths, seeker updates  *)
(* that are kept and that are rolled back.                                 *)
(***************************************************************************)
KeepMaxBuf == 2
KeepMaxEpLen == 3
KeepMaxUpdates == 2
KeepMaxEpisodes == 1

KeepLim == Limits(KeepMaxBuf, KeepMaxEpLen, KeepMaxUpdates, KeepMaxEpisodes)

KeepObs == {S9, H9, H10}
KeepTrs == {Tr(o, <<1, 0, 0>>, 1, FALSE, NoObs, "") : o \in KeepObs}
KeepOuts == {[r \in RoleSet |-> IF r = "seeker" THEN o ELSE "ok"] : o \in {"ok", "highkl"}}

InitKeep == InitWith({2}, {2}, {2}, {2}, {NoFile}, {NoFile}, {NoProbe})

ActKeepStep == HandleAct(S9, <<1, 0, 0>>)

TransitionKeepStep ==
    \E tr \in KeepTrs, out \in KeepOuts : HandleTransition(tr, out, TRUE, TRUE, KeepLim)

NextKeep == BootStep \/ ActKeepStep \/ TransitionKeepStep

SpecKeep == InitKeep /\ [][NextKeep]_vars

(***************************************************************************)
(* Claims checked under SpecKeep.                                          *)
(***************************************************************************)
\* The step held an update of the role that was not rolled back.
KeptUpdate(role) ==
    /\ h_upd'[role].kind = "attempt"
    /\ ~h_upd'[role].info.rolled_back

\* The step left the role's checkpoint of its counter's value, holding the
\* role's parameters.
CheckpointWritten(role) ==
    \E f \in checkpoint_dir' :
        /\ f.role = role
        /\ f.step = updates_done'[role]
        /\ f.content = policies'[role]

\* C20: a checkpoint of a role is written after each update of the role that
\* is not rolled back, and only then: such an update raises the role's
\* counter by one and writes the file of the new counter value; a step with
\* a rolled-back attempt, or with none, changes neither the counter nor any
\* checkpoint of the role.
C20_CheckpointPerKeptUpdate ==
    [][\A role \in RoleSet :
          IF KeptUpdate(role)
          THEN /\ updates_done'[role] = updates_done[role] + 1
               /\ CheckpointWritten(role)
          ELSE /\ updates_done'[role] = updates_done[role]
               /\ RoleFiles(checkpoint_dir', role) = RoleFiles(checkpoint_dir, role)]_vars

\* C21: the legacy file policy.pt is rewritten with the seeker's parameters
\* by every step that holds a seeker update that is not rolled back, and is
\* left as it was by every other step: hider updates, rolled-back updates,
\* attempts below the target.
C21_LegacyMirrorsSeeker ==
    [][IF KeptUpdate("seeker")
       THEN legacy_policy' = PolicyFile(policies'["seeker"])
       ELSE legacy_policy' = legacy_policy]_vars

(***************************************************************************)
(* Further claims checked under SpecCkpt.                                  *)
(***************************************************************************)
\* C22: a checkpoint is immutable: no step changes the content of a file of
\* a role and step that was written before, a reset on a change of the
\* observation width included; a file can only be removed by the trimming.
C22_CheckpointImmutable ==
    [][\A f \in checkpoint_dir : \A g \in checkpoint_dir' :
          (g.role = f.role /\ g.step = f.step) => g.content = f.content]_vars

(***************************************************************************)
(* Trajectory discovery (trainer/metrics_from_trajectories.py and          *)
(* scripts/plot_paths_from_trajectory.py).  A string is a sequence of      *)
(* tokens: directory names, "~", white space " ", and the separators ":"   *)
(* and ";"; a path is such a string.  A file system maps the resolved      *)
(* paths of its directories to their files; a file is [key, hidden, ext],  *)
(* key being the place of its name among the names after the leading dot   *)
(* of a hidden one.                                                        *)
(***************************************************************************)
os_pathsep == ":"
RepoDefault == <<"repo", "data", "trajectories">>
HomeDir == <<"home">>
OsDefaults == <<HomeDir \o <<"Library">>, HomeDir \o <<".local">>>>

\* str.split(sep) for a one-character separator: cur is the entry being read.
RECURSIVE SplitOn(_, _, _)
SplitOn(raw, sep, cur) ==
    IF raw = <<>> THEN <<cur>>
    ELSE IF raw[1] = sep THEN <<cur>> \o SplitOn(Tail(raw), sep, <<>>)
    ELSE SplitOn(Tail(raw), sep, Append(cur, raw[1]))

\* [entry.strip() for entry in raw.split(sep) if entry.strip()]
RECURSIVE StrippedEntries(_)
StrippedEntries(entries) ==
    IF entries = <<>> THEN <<>>
    ELSE (IF Strip(entries[1]) # <<>> THEN <<Strip(entries[1])>> ELSE <<>>)
         \o StrippedEntries(Tail(entries))

\* Path.expanduser: a leading "~" becomes the home directory.
expanduser(path) ==
    IF path # <<>> /\ path[1] = "~" THEN HomeDir \o Tail(path) ELSE path

\* Path.resolve: a relative path is taken from the working directory, and the
\* link "link" names the directory "B".
resolve(path) ==
    IF path = <<"link">> THEN <<"B">>
    ELSE IF path # <<>> /\ path[1] = "~" THEN <<"cwd">> \o path
    ELSE path

is_dir(fs, path) == resolve(path) \in DOMAIN fs

\* A leading dot sorts before the letters and digits file names begin with.
NameBefore(f, g) ==
    \/ f.hidden /\ ~g.hidden
    \/ f.hidden = g.hidden /\ f.key < g.key

RECURSIVE SortedNames(_)
SortedNames(files) ==
    IF files = {} THEN <<>>
    ELSE LET first == CHOOSE f \in files : \A g \in files \ {f} : NameBefore(f, g)
         IN  <<first>> \o SortedNames(files \ {first})

InDir(directory, names) ==
    [i \in DOMAIN names |-> [dir |-> directory, file |-> names[i]]]

\* sorted(glob.glob(os.path.join(directory, "*.jsonl"))): glob's "*" matches
\* no name with a leading dot.
glob_glob(fs, directory) ==
    InDir(directory,
          SortedNames({f \in fs[resolve(directory)] : f.ext = "jsonl" /\ ~f.hidden}))

\* sorted(directory.glob("*.jsonl")): pathlib's "*" matches hidden names too.
Path_glob(fs, directory) ==
    InDir(directory, SortedNames({f \in fs[resolve(directory)] : f.ext = "jsonl"}))

\* metrics_from_trajectories._legacy_dirs_from_env
_legacy_dirs_from_env(env) ==
    IF env.AI_LEGACY_TRAJECTORY_DIRS = <<>> THEN <<>>
    ELSE StrippedEntries(SplitOn(env.AI_LEGACY_TRAJECTORY_DIRS,
                                 IF env.AI_PATHSEP # "" THEN env.AI_PATHSEP
                                 ELSE os_pathsep,
                                 <<>>))

\* The loop over the candidates: keep resolved paths, the first of each.
RECURSIVE MetricsOrdered(_, _)
MetricsOrdered(candidates, seen) ==
    IF candidates = <<>> THEN <<>>
    ELSE LET resolved == resolve(expanduser(candidates[1]))
         IN  IF candidates[1] = <<>> \/ resolved \in seen
             THEN MetricsOrdered(Tail(candidates), seen)
             ELSE <<resolved>> \o MetricsOrdered(Tail(candidates), seen \cup {resolved})

\* metrics_from_trajectories.candidate_trajectory_dirs (APPDATA is not set)
metrics_candidate_trajectory_dirs(env) ==
    MetricsOrdered((IF env.AI_TRAJECTORIES_DIR # <<>>
                    THEN <<env.AI_TRAJECTORIES_DIR>> ELSE <<>>)
                   \o <<RepoDefault>> \o _legacy_dirs_from_env(env) \o OsDefaults,
                   {})

RECURSIVE FirstFiles(_, _, _)
FirstFiles(fs, directories, metrics) ==
    IF directories = <<>> THEN <<>>
    ELSE IF ~is_dir(fs, directories[1])
    THEN FirstFiles(fs, Tail(directories), metrics)
    ELSE LET files == IF metrics THEN glob_glob(fs, directories[1])
                      ELSE Path_glob(fs, directories[1])
         IN  IF files # <<>> THEN files
             ELSE FirstFiles(fs, Tail(directories), metrics)

\* The files find_first_dir_with_trajectories returns, <<>> when none.
find_first_dir_with_trajectories(env, fs) ==
    FirstFiles(fs, metrics_candidate_trajectory_dirs(env), TRUE)

\* The loop over the candidates: keep the paths as given, the first of each
\* resolved path.
RECURSIVE PlotUnique(_, _)
PlotUnique(candidates, seen) ==
    IF candidates = <<>> THEN <<>>
    ELSE IF resolve(candidates[1]) \in seen
    THEN PlotUnique(Tail(candidates), seen)
    ELSE <<candidates[1]>>
         \o PlotUnique(Tail(candidates), seen \cup {resolve(candidates[1])})

\* plot_paths_from_trajectory.candidate_trajectory_dirs (APPDATA is not set)
plot_candidate_trajectory_dirs(env) ==
    PlotUnique((IF env.AI_TRAJECTORIES_DIR # <<>>
                THEN <<env.AI_TRAJECTORIES_DIR>> ELSE <<>>)
               \o <<RepoDefault>>
               \o (IF env.AI_LEGACY_TRAJECTORY_DIRS = <<>> THEN <<>>
                   ELSE StrippedEntries(SplitOn(env.AI_LEGACY_TRAJECTORY_DIRS,
                                                os_pathsep, <<>>)))
               \o OsDefaults,
               {})

\* find_latest_trajectory(allow_missing=True): the one file, <<>> for None.
find_latest_trajectory(env, fs) ==
    LET files == FirstFiles(fs, plot_candidate_trajectory_dirs(env), FALSE)
    IN  IF files = <<>> THEN <<>> ELSE <<Last(files)>>

(***************************************************************************)
(* SpecTraj: both discoveries on the same environment and file system.     *)
(***************************************************************************)
Jsonl(key) == [key |-> key, hidden |-> FALSE, ext |-> "jsonl"]
HiddenJsonl(key) == [key |-> key, hidden |-> TRUE, ext |-> "jsonl"]
Other(key) == [key |-> key, hidden |-> FALSE, ext |-> "csv"]

TrajEnvDirs == {<<>>, <<"A">>, <<"link">>, <<"~", "t">>}
TrajLegacy ==
    {<<>>, <<"B">>, <<"C", ":", "B">>, <<"C", ";", "B">>,
     <<" ", "B", " ", ":", ":", "A">>}
TrajSeps == {"", ":", ";"}
TrajEnvs ==
    [AI_TRAJECTORIES_DIR : TrajEnvDirs, AI_LEGACY_TRAJECTORY_DIRS : TrajLegacy,
     AI_PATHSEP : TrajSeps]

TrajFs ==
    {(<<"A">> :> {Jsonl(2), Jsonl(1), Other(3)}) @@ (<<"B">> :> {Jsonl(4)})
        @@ (<<"C">> :> {Jsonl(5)}),
     (<<"A">> :> {Other(3)}) @@ (<<"B">> :> {Jsonl(4), Jsonl(6)})
        @@ (<<"home", "t">> :> {Jsonl(7)}),
     (<<"A">> :> {HiddenJsonl(9)}) @@ (<<"B">> :> {Jsonl(4), HiddenJsonl(8)})
        @@ (RepoDefault :> {}),
     (RepoDefault :> {Jsonl(1), Jsonl(3)}) @@ (<<"C">> :> {Jsonl(5)}),
     (<<"C">> :> {Jsonl(5)}) @@ (<<"home", "Library">> :> {Jsonl(2)})
        @@ (<<"home", ".local">> :> {Jsonl(3)})}

NotRun == <<[dir |-> <<"not run">>, file |-> Other(0)]>>

InitTraj ==
    InitWith({2}, {2}, {2}, {1}, {NoFile}, {NoFile},
             {[kind |-> "traj", env |-> e, fs |-> fs, metrics |-> NotRun,
               plot |-> NotRun] : e \in TrajEnvs, fs \in TrajFs})

\* metrics_from_trajectories.main up to the directory it uses.
MetricsFindStep ==
    /\ probe.kind = "traj"
    /\ probe.metrics = NotRun
    /\ probe' = [probe EXCEPT !.metrics =
                    find_first_dir_with_trajectories(probe.env, probe.fs)]
    /\ UNCHANGED <<pc, ConfigVars, StepVars, TrainerVars, metrics_csv, metrics_legacy, h_msg>>

\* plot_paths_from_trajectory.py --print-latest
PlotFindStep ==
    /\ probe.kind = "traj"
    /\ probe.plot = NotRun
    /\ probe' = [probe EXCEPT !.plot = find_latest_trajectory(probe.env, probe.fs)]
    /\ UNCHANGED <<pc, ConfigVars, StepVars, TrainerVars, metrics_csv, metrics_legacy, h_msg>>

NextTraj == BootStep \/ MetricsFindStep \/ PlotFindStep

SpecTraj == InitTraj /\ [][NextTraj]_vars

(***************************************************************************)
(* Claims checked under SpecTraj.                                          *)
(***************************************************************************)
BothRan == probe.kind = "traj" /\ probe.metrics # NotRun /\ probe.plot # NotRun

Resolved(found) ==
    [i \in DOMAIN found |-> [dir |-> resolve(found[i].dir), file |-> found[i].file]]

\* C23: discovery goes through the candidate directories in their fixed
\* order and returns the .jsonl files of the first directory that has any,
\* sorted by name; both scripts therefore resolve the same latest file for
\* the same environment.
C23_SameLatestTrajectory ==
    BothRan =>
        /\ \A i \in 1..Len(probe.metrics) - 1 :
               /\ probe.metrics[i].dir = probe.metrics[i + 1].dir
               /\ NameBefore(probe.metrics[i].file, probe.metrics[i + 1].file)
        /\ Resolved(probe.plot) =
               IF probe.metrics = <<>> THEN <<>> ELSE <<Last(probe.metrics)>>

(***************************************************************************)
(* SpecTrig: both roles, frames before the first inference, transitions    *)
(* alone and in batches, well typed and ill typed, updates kept and rolled *)
(* back.                                                                   *)
(***************************************************************************)
TrigMaxBuf == 3
TrigMaxEpLen == 3
TrigMaxUpdates == 2
TrigMaxEpisodes == 1

TrigLim == Limits(TrigMaxBuf, TrigMaxEpLen, TrigMaxUpdates, TrigMaxEpisodes)

TrigTrs ==
    {Tr(o, <<1, 0, 0>>, 1, FALSE, NoObs, "") : o \in {S9, H9}}
    \cup {Tr(NoObs, <<1, 0, 0>>, 1, FALSE, NoObs, "")}

TrigBatches ==
    {<<Tr(S9, <<1, 0, 0>>, 1, FALSE, NoObs, ""),
       Tr(S9, <<1, 0, 0>>, 2, FALSE, NoObs, ""),
       Tr(H9, <<1, 0, 0>>, 1, FALSE, NoObs, "")>>,
     <<Tr(H9, <<1, 0, 0>>, 1, FALSE, NoObs, ""),
       Tr(S9, NoObs, 1, FALSE, NoObs, "")>>}

TrigOuts == {[r \in RoleSet |-> IF r = "seeker" THEN o ELSE "ok"] : o \in {"ok", "highkl"}}

InitTrig == InitWith({2}, {2}, {2}, {1}, {NoFile}, {NoFile}, {NoProbe})

ActTrigStep == HandleAct(S9, <<1, 0, 0>>)

TransitionTrigStep ==
    \E tr \in TrigTrs, out \in TrigOuts : HandleTransition(tr, out, TRUE, TRUE, TrigLim)

BatchTrigStep ==
    \E trs \in TrigBatches, out \in TrigOuts :
        HandleTransitionBatch(trs, out, TRUE, TRUE, TrigLim)

DroppedTrigStep == HandleDropped("transitions_not_list")

NextTrig ==
    BootStep \/ ActTrigStep \/ TransitionTrigStep \/ BatchTrigStep \/ DroppedTrigStep

SpecTrig == InitTrig /\ [][NextTrig]_vars

(***************************************************************************)
(* Claims checked under SpecTrig.                                          *)
(***************************************************************************)
IsPrefix(s, t) == Len(s) <= Len(t) /\ SubSeq(t, 1, Len(s)) = s

\* In the step every role whose buffer held the target had one update
\* attempt on all of its buffer, and no other role had one.
UpdatesAsDue ==
    \A role \in RoleSet :
        IF h_upd'[role].kind = "attempt"
        THEN /\ Len(h_upd'[role].data.obs) >= batch_target
             /\ IsPrefix(buffers[role].obs, h_upd'[role].data.obs)
        ELSE /\ Len(buffers'[role].obs) < batch_target
             /\ IsPrefix(buffers[role].obs, buffers'[role].obs)

\* The step handled a transition or transition_batch frame to its end.
TransitionFrameHandled ==
    /\ DOMAIN policies # {}
    /\ \/ h_msg'.type \in {"transition", "transition_batch"} /\ ~h_msg'.ended
       \/ h_msg'.type = "transitions_not_list"

\* The step handled to its end a transition frame whose obs and action are
\* lists, or a transition_batch frame whose transitions field is a list.
TransitionFrameIngested ==
    /\ DOMAIN policies # {}
    /\ ~h_msg'.ended
    /\ \/ h_msg'.type = "transition" /\ h_msg'.fault = ""
       \/ h_msg'.type = "transition_batch"

SwapMaxBuf == 2
SwapMaxEpLen == 2
SwapMaxUpdates == 2
SwapMaxEpisodes == 1

SwapLim == Limits(SwapMaxBuf, SwapMaxEpLen, SwapMaxUpdates, SwapMaxEpisodes)

SwapTrs ==
    {Tr(S9, <<1, 0, 0>>, 1, FALSE, NoObs, ""),
     Tr(H9, <<1, 0, 0>>, 2, FALSE, NoObs, "")}

SwapOuts == {[r \in RoleSet |-> o] : o \in {"ok", "highkl"}}

InitSwap == InitWith({2}, {2}, {2}, {1}, {NoFile}, {NoFile}, {NoProbe})

ActSwapStep == HandleAct(S9, <<1, 0, 0>>)

StorePopSwapStep ==
    \E tr \in SwapTrs, out \in SwapOuts : StorePop(tr, out, TRUE, TRUE, SwapLim)

NextSwap ==
    \/ BootStep
    \/ ActSwapStep
    \/ StorePopSwapStep
    \/ StoreAppend
    \/ StoreStats
    \/ TransitionRest
    \/ GradientPi
    \/ GradientVf
    \/ UpdateLeave

SpecSwap == InitSwap /\ [][NextSwap]_vars

(***************************************************************************)
(* Claims checked under SpecSwap.                                          *)
(***************************************************************************)
\* The trainer on which the handler inside a step calls maybe_update.
BeforeMaybeUpdate ==
    frame.le.t

\* The step is the return of maybe_update to a handler that ends.
MaybeUpdateReturns ==
    /\ pc \in {"stored", "update"}
    /\ pc' = "run"
    /\ ~h_msg'.ended

SpecIter ==
    /\ InitStep
    /\ [][NextStep]_vars
    /\ WF_vars(StoreAppend)
    /\ WF_vars(StoreStats)
    /\ WF_vars(TransitionRest)
    /\ WF_vars(GradientPi)
    /\ WF_vars(GradientVf)
    /\ WF_vars(UpdateLeave)

\* C26: every update attempt terminates: PPOAgent.update performs at most
\* train_iters iterations of gradient steps and begins none after an
\* iteration whose approximate KL is above 1.5 target_kl, and a handler that
\* is inside an update comes back to the loop head.
C26_UpdateTerminates ==
    /\ [](InUpdate => /\ frame.iters <= TrainIters
                      /\ frame.stop => pc = "update")
    /\ (InUpdate ~> pc = "run")

\* An update that stopped after its first iteration, short of train_iters.
C26_Witness ==
    /\ pc = "update"
    /\ frame.stop
    /\ frame.iters = 1
    /\ frame.iters < TrainIters

(***************************************************************************)
(* SpecStore: transitions of one role with and without next_obs, done and  *)
(* not, from the single agent and from agent "a", before and after the     *)
(* first inference and across updates; the handler of a transition taken   *)
(* line by line.                                                           *)
(***************************************************************************)
StoreMaxBuf == 2
StoreMaxEpLen == 3
StoreMaxUpdates == 2
StoreMaxEpisodes == 1

StoreLim == Limits(StoreMaxBuf, StoreMaxEpLen, StoreMaxUpdates, StoreMaxEpisodes)

\* A seeker observation the heads answer otherwise than on S9.
StoreNext == MkObs(9, 5, 1)

StoreTrs ==
    {Tr(S9, <<1, 0, 0>>, 1, d, n, ag) :
        d \in BOOLEAN, n \in {NoObs, StoreNext}, ag \in {"", "a"}}

StoreOuts == {[r \in RoleSet |-> "ok"]}

InitStore == InitWith({2}, {2}, {2}, {1}, {NoFile}, {NoFile}, {NoProbe})

ActStoreStep == HandleAct(S9, <<0, 0, 0>>)

ActBatchStoreStep == HandleActBatch(ObsDict(<<Entry("a", StoreNext)>>), <<0, 0, 0>>)

StorePopStoreStep ==
    \E tr \in StoreTrs, out \in StoreOuts : StorePop(tr, out, TRUE, TRUE, StoreLim)

NextStore ==
    \/ BootStep
    \/ ActStoreStep
    \/ ActBatchStoreStep
    \/ StorePopStoreStep
    \/ StoreAppend
    \/ StoreStats
    \/ TransitionRest
    \/ GradientPi
    \/ GradientVf
    \/ UpdateLeave

SpecStore == InitStore /\ [][NextStore]_vars

(***************************************************************************)
(* Claims checked under SpecStore.                                         *)
(***************************************************************************)
\* The step appends the transition in flight to its role's buffer.
Appends == pc = "popped" /\ pc' = "appended"

StoringRole == _role_from_obs(frame.tr.obs)

\* The row the step has appended.
NewRow ==
    [done |-> Last(buffers'[StoringRole].done),
     next_val |-> Last(buffers'[StoringRole].next_val),
     logp |-> Last(buffers'[StoringRole].logp),
     val |-> Last(buffers'[StoringRole].val)]

\* The value head's estimate on obs under the role's policy as it stands
\* when the transition is ingested.
EstimateNow(obs) == ValueOf(policies[StoringRole], obs)

\* C28: every buffered transition with done set has next-value 0; a
\* transition stored with done not set has, as next-value, the estimate of
\* its role's value head on next_obs, and 0 when next_obs is absent or the
\* role has no policy.
C28_NextValueOfStored ==
    /\ [](\A r \in RoleSet : \A i \in DOMAIN buffers[r].done :
             buffers[r].done[i] => buffers[r].next_val[i] = 0)
    /\ [][Appends =>
            /\ NewRow.done = frame.tr.done
            /\ ~frame.tr.done =>
                 NewRow.next_val =
                     IF frame.tr.next_obs = NoObs \/ StoringRole \notin DOMAIN policies
                     THEN 0
                     ELSE EstimateNow(frame.tr.next_obs)]_vars

\* A transition not done was stored with the estimate on its next_obs after
\* an update had changed the value head.
C28_Witness ==
    /\ pc = "appended"
    /\ ~frame.tr.done
    /\ frame.tr.next_obs = StoreNext
    /\ "seeker" \in DOMAIN policies
    /\ policies["seeker"].vf > 0
    /\ Last(buffers["seeker"].next_val) > 0

\* The cache as the handler in flight found it, and the key it looks under.
CacheFound == frame.t0.act_cache

StoringKey == IF frame.tr.agent # "" THEN frame.tr.agent ELSE SingleKey

\* C29: a transition ingested while the cache holds an entry under its agent
\* id (under the singleton key when it names no agent) is stored with the
\* entry's log-probability and value; with no such entry it is stored with
\* the current policy's log-probability of its action and value estimate on
\* its obs, and with 0 and 0 when its role has no policy.
C29_StoredLogpAndValue ==
    [][Appends =>
         IF StoringKey \in DOMAIN CacheFound
         THEN /\ NewRow.logp = CacheFound[StoringKey].logp
              /\ NewRow.val = CacheFound[StoringKey].value
         ELSE IF StoringRole \in DOMAIN policies
         THEN /\ NewRow.logp = LogpOf(policies[StoringRole], frame.tr.obs,
                                      frame.tr.action)
              /\ NewRow.val = EstimateNow(frame.tr.obs)
         ELSE /\ NewRow.logp = 0
              /\ NewRow.val = 0]_vars

\* A transition stored with the entry of an inference made before an
\* update: the current policy gives another value on its obs.
C29_Witness ==
    /\ pc = "appended"
    /\ StoringKey \in DOMAIN CacheFound
    /\ policies["seeker"].vf > 0
    /\ Last(buffers["seeker"].val) = CacheFound[StoringKey].value
    /\ Last(buffers["seeker"].val) # ValueOf(policies["seeker"], frame.tr.obs)

(***************************************************************************)
(* SpecInfo: transitions whose info carries time_elapsed, winner,          *)
(* terminal_reason and episode, well-typed and not, alone and in batches,  *)
(* up to the end of an episode and after it, on a metrics file whose       *)
(* append may fail.                                                        *)
(***************************************************************************)
InfoMaxBuf == 2
InfoMaxEpLen == 3
InfoMaxUpdates == 3
InfoMaxEpisodes == 1

InfoLim == Limits(InfoMaxBuf, InfoMaxEpLen, InfoMaxUpdates, InfoMaxEpisodes)

\* A step of episode 7, its end, values another transition reports later,
\* and fields of types the trainer does not take.
InfoStep == InfoDict(JNum(1), JNull, JNull, JNum(7))
InfoEnd == InfoDict(JNum(3), JStr("seeker"), JStr("tagged"), JNum(7))
InfoOther == InfoDict(JNum(2), JStr("hider"), JStr("timeout"), JNum(8))
InfoIllTyped == InfoDict(JStr("soon"), JNum(1), JNum(1), JStr("seven"))

Infos == {InfoStep, InfoEnd, InfoOther, InfoIllTyped}

InfoTrs ==
    {WithInfo(Tr(S9, <<1, 0, 0>>, 1, FALSE, NoObs, ""), i) : i \in Infos}
    \cup {WithInfo(Tr(S9, <<1, 0, 0>>, 1, TRUE, NoObs, ""), InfoEnd)}

InfoBatches ==
    {<<WithInfo(Tr(S9, <<1, 0, 0>>, 1, TRUE, NoObs, ""), InfoEnd),
       WithInfo(Tr(S9, <<1, 0, 0>>, 1, FALSE, NoObs, ""), InfoOther)>>}

InfoOuts == {[r \in RoleSet |-> "ok"]}

InitInfo == InitWith({1}, {2}, {2}, {1}, {NoFile}, {NoFile}, {NoProbe})

ActInfoStep == HandleAct(S9, <<1, 0, 0>>)

TransitionInfoStep ==
    \E tr \in InfoTrs, out \in InfoOuts, appendOk \in BOOLEAN :
        HandleTransition(tr, out, TRUE, appendOk, InfoLim)

BatchInfoStep ==
    \E trs \in InfoBatches, out \in InfoOuts, appendOk \in BOOLEAN :
        HandleTransitionBatch(trs, out, TRUE, appendOk, InfoLim)

NextInfo ==
    \/ BootStep
    \/ ActInfoStep
    \/ TransitionInfoStep
    \/ BatchInfoStep

SpecInfo == InitInfo /\ [][NextInfo]_vars

(***************************************************************************)
(* Claims checked under SpecInfo.                                          *)
(***************************************************************************)
\* The first string, not empty, among the values; "" when there is none.
RECURSIVE FirstString(_, _)
FirstString(vals, i) ==
    IF i > Len(vals) THEN ""
    ELSE IF vals[i].ty = "str" /\ vals[i].s # "" THEN vals[i].s
    ELSE FirstString(vals, i + 1)

\* The first number among the values; NoId when there is none.
RECURSIVE FirstNumber(_, _)
FirstNumber(vals, i) ==
    IF i > Len(vals) THEN NoId
    ELSE IF vals[i].ty = "num" THEN <<vals[i].n>>
    ELSE FirstNumber(vals, i + 1)

\* The greatest number among the values; 0 when there is none.
RECURSIVE GreatestNumber(_, _)
GreatestNumber(vals, i) ==
    IF i > Len(vals) THEN 0
    ELSE Max2(IF vals[i].ty = "num" THEN vals[i].n ELSE 0,
              GreatestNumber(vals, i + 1))

\* C30: within one episode (from one reset of the episode statistics to the
\* next) the recorded winner, terminal reason and episode id are the first
\* value of their kind that a transition reported, whatever later
\* transitions report, and the recorded duration is the greatest
\* time_elapsed reported so far.
C30_FirstReportedKept ==
    /\ current_ep_winner =
           FirstString([i \in DOMAIN h_info |-> h_info[i].winner], 1)
    /\ current_ep_terminal_reason =
           FirstString([i \in DOMAIN h_info |-> h_info[i].terminal_reason], 1)
    /\ current_ep_episode_id =
           FirstNumber([i \in DOMAIN h_info |-> h_info[i].episode], 1)
    /\ current_ep_duration =
           GreatestNumber([i \in DOMAIN h_info |-> h_info[i].time_elapsed], 1)


\* A third transition reports another winner, reason and episode id and a
\* smaller time_elapsed than the second, after a first that named none.
C30_Witness ==
    /\ Len(h_info) = 3
    /\ h_info[1] = InfoIllTyped
    /\ h_info[2] = InfoEnd
    /\ h_info[3] = InfoOther
    /\ current_ep_winner = "seeker"
    /\ current_ep_duration = 3

(***************************************************************************)
(* SpecFlush: episodes that end with and without a reported episode id,    *)
(* while another agent's inference is cached, on a metrics file whose       *)
(* append may fail; the handler of a transition taken line by line.        *)
(***************************************************************************)
FlushMaxBuf == 2
FlushMaxEpLen == 2
FlushMaxUpdates == 2
FlushMaxEpisodes == 2

FlushLim == Limits(FlushMaxBuf, FlushMaxEpLen, FlushMaxUpdates, FlushMaxEpisodes)

FlushTrs ==
    {WithInfo(Tr(S9, <<1, 0, 0>>, 1, d, NoObs, ""), i) :
        d \in BOOLEAN, i \in {NoInfo, InfoEnd}}

FlushOuts == {[r \in RoleSet |-> "ok"]}

InitFlush == InitWith({2}, {2}, {2}, {1}, {NoFile}, {NoFile}, {NoProbe})

ActBatchFlushStep == HandleActBatch(ObsDict(<<Entry("a", S9)>>), <<1, 0, 0>>)

StorePopFlushStep ==
    \E tr \in FlushTrs, out \in FlushOuts, appendOk \in BOOLEAN :
        StorePop(tr, out, TRUE, appendOk, FlushLim)

NextFlush ==
    \/ BootStep
    \/ ActBatchFlushStep
    \/ StorePopFlushStep
    \/ StoreAppend
    \/ StoreStats
    \/ TransitionRest
    \/ GradientPi
    \/ GradientVf
    \/ UpdateLeave

SpecFlush == InitFlush /\ [][NextFlush]_vars

(***************************************************************************)
(* Claims checked under SpecFlush.                                         *)
(***************************************************************************)
\* The handler in flight has stored a done transition: log_episode is its
\* next call, on the trainer StatsBefore, and leaves the trainer StatsAfter.
FlushNext == pc = "stored" /\ frame.st.ret

StatsBefore == frame.st.t

StatsAfter == frame.le.t

\* C31: an episode flush leaves every episode statistic at its initial value
\* and the action cache empty, leaves buffers and policies as they were, and
\* appends a row whose episode id is the reported one if one was recorded
\* and the incremented episode counter otherwise.
C31_FlushResetsStatistics ==
    FlushNext =>
        /\ StatsFresh(StatsAfter)
        /\ StatsAfter.act_cache = EmptyMap
        /\ StatsAfter.buffers = StatsBefore.buffers
        /\ StatsAfter.policies = StatsBefore.policies
        /\ Len(StatsAfter.metrics_csv.rows) = Len(StatsBefore.metrics_csv.rows) + 1
        /\ Last(StatsAfter.metrics_csv.rows).episode_id =
               IF StatsBefore.current_ep_episode_id # NoId
               THEN StatsBefore.current_ep_episode_id[1]
               ELSE StatsBefore.episodes_logged + 1

(***************************************************************************)
(* SpecOwn: both roles, inference on two widths, episodes that end, and    *)
(* updates of either role that are kept, rolled back for a high KL, or     *)
(* raise.                                                                  *)
(***************************************************************************)
OwnMaxBuf == 1
OwnMaxEpLen == 1
OwnMaxUpdates == 1
OwnMaxEpisodes == 1

OwnLim == Limits(OwnMaxBuf, OwnMaxEpLen, OwnMaxUpdates, OwnMaxEpisodes)

OwnTrs ==
    {Tr(S9, <<1, 0, 0>>, 1, FALSE, NoObs, ""),
     Tr(H9, <<1, 0, 0>>, 1, TRUE, NoObs, "")}

OwnOuts ==
    {[seeker |-> "ok", hider |-> "ok"],
     [seeker |-> "highkl", hider |-> "raise"]}

InitOwn == InitWith({1}, {1}, {1}, {1}, {NoFile}, {NoFile}, {NoProbe})

ActOwnStep == \E obs \in {S9, H9, S10} : HandleAct(obs, <<1, 0, 0>>)

TransitionOwnStep ==
    \E tr \in OwnTrs, out \in OwnOuts : HandleTransition(tr, out, TRUE, TRUE, OwnLim)

NextOwn == BootStep \/ ActOwnStep \/ TransitionOwnStep

SpecOwn == InitOwn /\ [][NextOwn]_vars

(***************************************************************************)
(* Claims checked under SpecOwn.                                           *)
(***************************************************************************)
\* The step leaves the role, which had a policy, with other parameters or
\* with none.
PolicyChanged(role) ==
    /\ role \in DOMAIN policies
    /\ role \notin DOMAIN policies' \/ policies'[role] # policies[role]

\* The step is an inference on another width than the configured one.
Reinitialised ==
    /\ h_msg'.type \in {"act", "act_batch"}
    /\ cfg' # cfg

\* C32: the parameters of a role change only in a step that attempts an
\* update of that role or that reinitialises the policies on a changed
\* width: inference on the configured width, ingestion, an episode flush
\* and the update attempts of the other role leave them as they are.
C32_PolicyChangedByOwnUpdateOnly ==
    [][\A role \in RoleSet :
          PolicyChanged(role) =>
              \/ h_upd'[role].kind = "attempt"
              \/ Reinitialised]_vars

\* An update of the hider was kept in the last step, which attempted none
\* of the seeker and left the seeker with the parameters it began with.
C32_Witness ==
    /\ h_upd["hider"].kind = "attempt"
    /\ ~h_upd["hider"].info.rolled_back
    /\ h_upd["seeker"].kind = "none"
    /\ policies["hider"].pi > 0
    /\ policies["seeker"] = PPOAgent(cfg)

(***************************************************************************)
(* SpecLock: the handler of a transition taken line by line, with the      *)
(* critical section of maybe_update that swaps the buffers out as a step   *)
(* of its own, and updates that are kept and that are rolled back.         *)
(***************************************************************************)
LockMaxBuf == 2
LockMaxEpLen == 2
LockMaxUpdates == 1
LockMaxEpisodes == 1

LockLim == Limits(LockMaxBuf, LockMaxEpLen, LockMaxUpdates, LockMaxEpisodes)

LockTrs ==
    {Tr(S9, <<1, 0, 0>>, 1, FALSE, NoObs, ""),
     Tr(H9, <<1, 0, 0>>, 1, FALSE, NoObs, "")}

LockOuts == {[r \in RoleSet |-> o] : o \in {"ok", "highkl"}}

InitLock == InitWith({2}, {2}, {2}, {1}, {NoFile}, {NoFile}, {NoProbe})

ActLockStep == HandleAct(S9, <<1, 0, 0>>)

StorePopLockStep ==
    \E tr \in LockTrs, out \in LockOuts : StorePop(tr, out, TRUE, TRUE, LockLim)

\* Lines 456-458 and the rest of the branch up to line 271 of maybe_update:
\* the episode flush, and `with self.lock` is entered when policies exist
\* and a batch is due; the handler's end when no update is due.
SwapEnter ==
    /\ pc = "stored"
    /\ IF EntersUpdate(frame.le)
       THEN MoveOn(frame.le.t, "swapping") /\ lock' = "held"
       ELSE LeaveHandler(FrameDone) /\ lock' = lock
    /\ UNCHANGED <<ConfigVars, metrics_legacy, probe>>

\* The same leaving the block with the lock held: a mutant of SwapLeave.
SwapLeave_Held ==
    /\ pc = "swapping"
    /\ Install(SwappedOut(frame.le.t, FirstFull(frame.le.t)))
    /\ pc' = "update"
    /\ frame' = [frame EXCEPT !.role = FirstFull(frame.le.t)]
    /\ h_msg' = h_msg
    /\ lock' = lock
    /\ UNCHANGED <<ConfigVars, metrics_legacy, probe>>

\* Lines 272-281: the buffers are copied and cleared and the block is left,
\* which releases the lock; a seeker batch below the target is merged back
\* in a block of its own; _update_role is called for the first role that
\* has its batch.
SwapLeave ==
    /\ pc = "swapping"
    /\ Install(SwappedOut(frame.le.t, FirstFull(frame.le.t)))
    /\ pc' = "update"
    /\ frame' = [frame EXCEPT !.role = FirstFull(frame.le.t)]
    /\ h_msg' = h_msg
    /\ lock' = "free"
    /\ UNCHANGED <<ConfigVars, metrics_legacy, probe>>

NextLock ==
    \/ BootStep
    \/ ActLockStep
    \/ StorePopLockStep
    \/ StoreAppend
    \/ StoreStats
    \/ SwapEnter
    \/ SwapLeave
    \/ GradientPi
    \/ GradientVf
    \/ UpdateLeave

SpecLock == InitLock /\ [][NextLock]_vars

(***************************************************************************)
(* Claims checked under SpecLock.                                          *)
(***************************************************************************)
\* C33: the lock is never held while the gradient computation of an update
\* runs: wherever an update stands between the call of PPOAgent.update and
\* its return the lock is free, so that an ingestion could take it; the
\* handler holds the lock only in the block that appends a transition and
\* in the block that swaps the buffers out.
C33_LockFreeDuringUpdate ==
    /\ InUpdate => lock = "free"
    /\ lock = "held" => pc \in {"appended", "swapping"}

\* An update of the hider stands after a gradient step of its policy head,
\* the buffers swapped out, the seeker's transition, below the target,
\* merged back.
C33_Witness ==
    /\ pc = "update_pi"
    /\ frame.role = "hider"
    /\ lock = "free"
    /\ buffers["hider"] = _make_buffer
    /\ Len(buffers["seeker"].obs) = 1

(***************************************************************************)
(* Claims checked under SpecMsg, continued.                                *)
(***************************************************************************)
\* The columns of a buffer.
Columns == {"obs", "act", "rew", "done", "logp", "val", "next_val"}

ColumnLen(buf, key) ==
    CASE key = "obs" -> Len(buf.obs)
      [] key = "act" -> Len(buf.act)
      [] key = "rew" -> Len(buf.rew)
      [] key = "done" -> Len(buf.done)
      [] key = "logp" -> Len(buf.logp)
      [] key = "val" -> Len(buf.val)
      [] key = "next_val" -> Len(buf.next_val)

\* C34: in every reachable state the seven columns of each role's buffer
\* have the same length, also after transition and transition_batch frames
\* whose ingestion fails part-way, such as one with an action list of fewer
\* than two elements.
C34_ColumnsSameLength ==
    \A role \in RoleSet : \A k1, k2 \in Columns :
        ColumnLen(buffers[role], k1) = ColumnLen(buffers[role], k2)

(***************************************************************************)
(* Claims checked under SpecKeep, continued.                               *)
(***************************************************************************)
\* The step handles a transition or a transition_batch frame.
Ingests == h_msg'.type \in {"transition", "transition_batch"}

\* The rows the role's buffer held before the step are still there, in their
\* places.
StillBuffered(role) == IsPrefix(buffers[role].rew, buffers'[role].rew)

\* The rows the role's buffer held before the step went into an update of
\* the role that was kept, and are in the buffer no more.
ConsumedByKeptUpdate(role) ==
    /\ h_upd'[role].kind = "attempt"
    /\ ~h_upd'[role].info.rolled_back
    /\ IsPrefix(buffers[role].rew, h_upd'[role].data.rew)
    /\ buffers'[role] = _make_buffer

\* C35: transitions are conserved across maybe_update: whatever a role's
\* buffer holds before the handling of a transition or transition_batch
\* frame is after it either still in the buffer, once, or was part of the
\* one update of the role the handling kept; nothing is lost when an update
\* attempt of either role fails with an exception.
C35_TransitionsConserved ==
    [][Ingests => \A role \in RoleSet :
                     StillBuffered(role) \/ ConsumedByKeptUpdate(role)]_vars

\* The step stores a transition with the pair of a cache entry.
ConsumesEntry ==
    /\ h_msg'.type = "transition"
    /\ h_msg'.hit
    /\ h_ep' # h_ep

\* C36: whenever a transition consumes an action-cache entry, the entry was
\* produced by an inference for the role the transition is routed to: the
\* log-probability and value computed under one role's policy are never
\* stored in the other role's buffer.
C36_CachedPairOfSameRole ==
    [][ConsumesEntry => act_cache[h_msg'.key].role = Last(h_ep').role]_vars

(***************************************************************************)
(* SpecRows: a run of several episodes on observations of two widths,      *)
(* every update kept and every append to the metrics log succeeding.       *)
(***************************************************************************)
RowsMaxBuf == 1
RowsMaxEpLen == 2
RowsMaxUpdates == 3
RowsMaxEpisodes == 2

RowsLim == Limits(RowsMaxBuf, RowsMaxEpLen, RowsMaxUpdates, RowsMaxEpisodes)

RowsTrs ==
    {Tr(o, <<1, 0, 0>>, 1, d, NoObs, "") : o \in {S9, S10}, d \in BOOLEAN}

RowsOuts == {[r \in RoleSet |-> "ok"]}

InitRows == InitWith({1}, {2}, {2}, {1}, {NoFile}, {NoFile}, {NoProbe})

ActRowsStep == \E obs \in {S9, S10} : HandleAct(obs, <<1, 0, 0>>)

TransitionRowsStep ==
    \E tr \in RowsTrs, out \in RowsOuts :
        HandleTransition(tr, out, TRUE, TRUE, RowsLim)

NextRows == BootStep \/ ActRowsStep \/ TransitionRowsStep

SpecRows == InitRows /\ [][NextRows]_vars

(***************************************************************************)
(* Claims checked under SpecRows.                                          *)
(***************************************************************************)
\* The rows this run appended to the metrics log.
RunRows == metrics_csv.rows

EpisodeColumnCounts == \A i \in 1..Len(RunRows) : RunRows[i].episode = i

UpdatesColumnGrows ==
    \A i \in 1..(Len(RunRows) - 1) : RunRows[i].updates <= RunRows[i + 1].updates

\* C37: across the successive rows of one run's metrics log the episode
\* column starts at 1 and increases by exactly 1 per row, and the cumulative
\* updates column never decreases from one row to the next, for any sequence
\* of messages, observation-dimension changes included.
C37_RowsCountUp == EpisodeColumnCounts /\ UpdatesColumnGrows

(***************************************************************************)
(* Claims checked under SpecInfo, continued.                               *)
(***************************************************************************)
\* The step stored a transition of the role.
StoredFor(role) == h_ep' # h_ep /\ Last(h_ep').role = role

\* What the step of a transition frame makes of the role's count of
\* transitions ingested since the last flush.
CountAfter(role) ==
    IF h_msg'.finished
    THEN 0
    ELSE current_ep_steps[role] + (IF StoredFor(role) THEN 1 ELSE 0)

\* C38: in every reachable state and for each role the episode step counter
\* equals the number of rewards accumulated for the role in the current
\* episode, and both equal the number of the role's transitions ingested
\* since the last episode flush: a transition frame that is followed by a
\* flush leaves the counter at 0, one that is not adds one to the counter of
\* the role it stored for, and an inference leaves the counters alone.
C38_StepsCountIngested ==
    /\ [](\A role \in RoleSet :
             current_ep_steps[role] = Len(current_ep_rewards[role]))
    /\ [][/\ h_msg'.type = "transition" =>
               \A role \in RoleSet : current_ep_steps'[role] = CountAfter(role)
          /\ h_msg'.type \in {"act", "act_batch"} =>
               current_ep_steps' = current_ep_steps]_vars

(***************************************************************************)
(* SpecBatch: transition_batch frames of two items, well-formed and not,   *)
(* on a trainer with and without policies and cached inference.            *)
(***************************************************************************)
BatchMaxBuf == 2
BatchMaxEpLen == 2
BatchMaxUpdates == 2
BatchMaxEpisodes == 2

BatchLim == Limits(BatchMaxBuf, BatchMaxEpLen, BatchMaxUpdates, BatchMaxEpisodes)

BatchItems ==
    {Tr(S9, <<1, 0, 0>>, 1, FALSE, NoObs, ""),
     Tr(S9, <<1, 0, 0>>, 2, TRUE, NoObs, ""),
     Tr(H9, <<1, 0, 0>>, 1, FALSE, NoObs, ""),
     Tr(S9, <<1, 0, 0>>, NotANumber, TRUE, NoObs, ""),
     Tr(NoObs, <<1, 0, 0>>, 1, TRUE, NoObs, ""),
     Tr(S9, <<1>>, 1, TRUE, NoObs, "")}

BatchBatches == {<<a, b>> : a \in BatchItems, b \in BatchItems}

BatchOuts == {[r \in RoleSet |-> "ok"]}

InitBatch == InitWith({2}, {2}, {2}, {1}, {NoFile}, {NoFile}, {NoProbe})

ActBatchedStep == HandleAct(S9, <<1, 0, 0>>)

BatchBatchStep ==
    \E trs \in BatchBatches, out \in BatchOuts :
        HandleTransitionBatch(trs, out, TRUE, TRUE, BatchLim)

NextBatch == BootStep \/ ActBatchedStep \/ BatchBatchStep

SpecBatch == InitBatch /\ [][NextBatch]_vars

(***************************************************************************)
(* Claims checked under SpecBatch.                                         *)
(***************************************************************************)
WellFormed(tr) == Fault(tr) = ""

\* What add_transition_batch makes of the trainer as it stands: of the whole
\* list, and of the list without the items that are not well-formed.
OfAll(trs) == add_transition_batch(State, trs, TRUE)

OfWellFormed(trs) == add_transition_batch(State, SelectSeq(trs, WellFormed), TRUE)

SkipsFaulty(all, good, trs) ==
    /\ all.stored.buffers = good.stored.buffers
    /\ all.finished = good.finished
    /\ all.finished = (\E i \in 1..Len(trs) : WellFormed(trs[i]) /\ trs[i].done)

\* C39: in add_transition_batch an item that is ill-typed or whose ingestion
\* raises is skipped without affecting the others: the buffers after the
\* loop are those the well-formed items alone would give, stored in list
\* order, and the episode is flushed, once and after the loop, exactly when
\* a stored item had done=true.
C39_BatchSkipsFaulty ==
    AtLoopHead => \A trs \in BatchBatches :
                      SkipsFaulty(OfAll(trs), OfWellFormed(trs), trs)

====
